---- MODULE Spec2Model ----
(***************************************************************************)
(* A model of fast-orm: the query builder and its SQL compilation          *)
(* (QueryBuilder), the migration runner (MigrationRunner), the connection  *)
(* wrapper (Connection, FastOrm.transaction) and the model facade (Model). *)
(*                                                                         *)
(* SQL text is a sequence of fragments (strings); a positional placeholder *)
(* is the fragment "?" on its own.  Text(frags) is the text itself.        *)
(* JavaScript values are tagged records [t, v], so that values of          *)
(* different JavaScript types can sit in one parameter list.               *)
(***************************************************************************)
EXTENDS Integers, Sequences, FiniteSets, TLC

(***************************************************************************)
(* Bounds of the model.                                                    *)
(***************************************************************************)
\* the number of predicate nodes one query builder is given, nested ones included
MaxClauses == 3
\* the greatest steps argument migrateDown is given
MaxSteps == 2
\* the callers whose calls on one Connection interleave
MaxCallers == 3
\* the connections of the pool (connectionLimit)
PoolSize == 2
\* the queries the callback of one transaction runs
MaxQueries == 1
\* the rows the table of a model comes to hold
MaxRows == 2
\* the hooks registered on one model
MaxHooks == 2
\* the calls made on one Connection object in its lifetime
MaxCalls == 3
MaxRunners == 2

(***************************************************************************)
(* JavaScript values.                                                      *)
(***************************************************************************)
Num(n) == [t |-> "number", v |-> n]
Str(s) == [t |-> "string", v |-> s]
Bool(b) == [t |-> "boolean", v |-> b]
Arr(s) == [t |-> "array", v |-> s]
Null == [t |-> "null", v |-> 0]
Function(name) == [t |-> "function", v |-> name]
Undefined == [t |-> "undefined", v |-> 0]

(***************************************************************************)
(* Text helpers.                                                           *)
(***************************************************************************)
RECURSIVE Text(_)
\* the text a fragment sequence stands for
Text(frags) ==
    IF frags = <<>> THEN "" ELSE Head(frags) \o Text(Tail(frags))

RECURSIVE Flatten(_)
\* the concatenation of a sequence of sequences
Flatten(seqs) ==
    IF seqs = <<>> THEN <<>> ELSE Head(seqs) \o Flatten(Tail(seqs))

RECURSIVE Join(_, _)
\* Array.prototype.join on an array of texts: the parts separated by sep
Join(parts, sep) ==
    IF parts = <<>> THEN <<>>
    ELSE IF Len(parts) = 1 THEN Head(parts)
    ELSE Head(parts) \o <<sep>> \o Join(Tail(parts), sep)

\* the number of positional placeholders of a text
CountPlaceholders(frags) ==
    Cardinality({i \in 1..Len(frags) : frags[i] = "?"})

(***************************************************************************)
(* QueryBuilder: the plan and its modifiers.                               *)
(***************************************************************************)
\* currentWhereGroup is null on a builder made by the caller and an array on
\* the scratch builder handed to a where/orWhere/join callback
NoGroup == [isNull |-> TRUE, clauses |-> <<>>]
EmptyGroup == [isNull |-> FALSE, clauses |-> <<>>]

\* new QueryBuilder(tableName, connection): the field initialisers
NewQueryBuilder(table) ==
    [tableName |-> table,
     selectColumns |-> <<"*">>,
     whereClauses |-> <<>>,
     limitValue |-> Null,
     offsetValue |-> Null,
     orderByConditions |-> <<>>,
     groupByColumns |-> <<>>,
     havingConditions |-> <<>>,
     joinClauses |-> <<>>,
     currentWhereGroup |-> NoGroup]

\* addWhere: push on the current group when there is one (an empty array is
\* truthy), on whereClauses otherwise
addWhere(qb, clause) ==
    IF ~qb.currentWhereGroup.isNull
    THEN [qb EXCEPT !.currentWhereGroup.clauses = Append(@, clause)]
    ELSE [qb EXCEPT !.whereClauses = Append(@, clause)]

BasicClause(bool, column, operator, value) ==
    [type |-> "basic", boolean |-> bool, column |-> column,
     operator |-> operator, value |-> value]

GroupClause(bool, clauses) ==
    [type |-> "group", boolean |-> bool, clauses |-> clauses]

RawClause(bool, sql, params) ==
    [type |-> "raw", boolean |-> bool, sql |-> sql, params |-> params]

\* where(column, operator, value): the string form; nothing is appended when
\* operator or value is undefined
whereString(qb, column, operator, value) ==
    IF operator # Undefined /\ value # Undefined
    THEN addWhere(qb, BasicClause("AND", column, operator.v, value))
    ELSE qb

\* orWhere(column, operator, value): the string form
orWhereString(qb, column, operator, value) ==
    IF operator # Undefined /\ value # Undefined
    THEN addWhere(qb, BasicClause("OR", column, operator.v, value))
    ELSE qb

\* a return that appends the group whatever it holds
appendGroupAlways(qb, bool, nestedBuilder) ==
    addWhere(qb, GroupClause(bool, nestedBuilder.currentWhereGroup.clauses))

\* where(callback) / orWhere(callback), after the callback has returned: the
\* nested builder's group is appended only when it is not empty
whereCallbackReturn(qb, bool, nestedBuilder) ==
    IF Len(nestedBuilder.currentWhereGroup.clauses) > 0
    THEN addWhere(qb, GroupClause(bool, nestedBuilder.currentWhereGroup.clauses))
    ELSE qb

whereIn(qb, column, values) == addWhere(qb, BasicClause("AND", column, "IN", Arr(values)))
orWhereIn(qb, column, values) == addWhere(qb, BasicClause("OR", column, "IN", Arr(values)))
whereNotIn(qb, column, values) == addWhere(qb, BasicClause("AND", column, "NOT IN", Arr(values)))
orWhereNotIn(qb, column, values) == addWhere(qb, BasicClause("OR", column, "NOT IN", Arr(values)))
whereNull(qb, column) == addWhere(qb, BasicClause("AND", column, "IS NULL", Null))
orWhereNull(qb, column) == addWhere(qb, BasicClause("OR", column, "IS NULL", Null))
whereNotNull(qb, column) == addWhere(qb, BasicClause("AND", column, "IS NOT NULL", Null))
orWhereNotNull(qb, column) == addWhere(qb, BasicClause("OR", column, "IS NOT NULL", Null))
whereBetween(qb, column, min, max) ==
    addWhere(qb, BasicClause("AND", column, "BETWEEN", Arr(<<min, max>>)))
orWhereBetween(qb, column, min, max) ==
    addWhere(qb, BasicClause("OR", column, "BETWEEN", Arr(<<min, max>>)))
whereNotBetween(qb, column, min, max) ==
    addWhere(qb, BasicClause("AND", column, "NOT BETWEEN", Arr(<<min, max>>)))
orWhereNotBetween(qb, column, min, max) ==
    addWhere(qb, BasicClause("OR", column, "NOT BETWEEN", Arr(<<min, max>>)))
whereRaw(qb, sql, params) == addWhere(qb, RawClause("AND", sql, params))
orWhereRaw(qb, sql, params) == addWhere(qb, RawClause("OR", sql, params))

limit(qb, count) == [qb EXCEPT !.limitValue = count]
offset(qb, count) == [qb EXCEPT !.offsetValue = count]

\* having(column, operator, value)
having(qb, column, operator, value) ==
    [qb EXCEPT !.havingConditions =
                   Append(@, BasicClause("AND", column, operator, value))]

\* select(...columns)
select(qb, columns) ==
    [qb EXCEPT !.selectColumns = IF Len(columns) > 0 THEN columns ELSE <<"*">>]

\* count(column = '*'), sum(column), avg(column) up to the call of getRaw:
\* the select list becomes the aggregate expression
count(qb, column) ==
    [qb EXCEPT !.selectColumns = <<"COUNT(" \o column \o ") as count">>]
sum(qb, column) ==
    [qb EXCEPT !.selectColumns = <<"SUM(" \o column \o ") as sum">>]
avg(qb, column) ==
    [qb EXCEPT !.selectColumns = <<"AVG(" \o column \o ") as avg">>]

\* a first() that leaves the limit the caller had set
firstKeepingTheLimit(qb) == qb

\* first() up to the call of get: this.limit(1)
first(qb) == limit(qb, Num(1))

(***************************************************************************)
(* QueryBuilder: compilation.                                              *)
(***************************************************************************)
\* clause.value.map(() => '?').join(', ')
\* a rendering that writes a placeholder for an empty list as well
PlaceholdersNeverNone(n) ==
    Join([i \in 1..(IF n = 0 THEN 1 ELSE n) |-> <<"?">>], ", ")

Placeholders(n) == Join([i \in 1..n |-> <<"?">>], ", ")

\* operatorPart of a basic clause: rewritten with placeholders for IN and
\* BETWEEN, left as clause.operator in every other branch
OperatorPart(clause) ==
    IF clause.operator \in {"IN", "NOT IN"}
    THEN <<clause.operator, " (">> \o Placeholders(Len(clause.value.v)) \o <<")">>
    ELSE IF clause.operator \in {"BETWEEN", "NOT BETWEEN"}
    THEN <<clause.operator, " ", "?", " AND ", "?">>
    ELSE <<clause.operator>>

\* what a basic clause pushes on params
OperatorParams(clause) ==
    IF clause.operator \in {"IN", "NOT IN"}
    THEN clause.value.v
    ELSE IF clause.operator \in {"BETWEEN", "NOT BETWEEN"}
    THEN <<clause.value.v[1], clause.value.v[2]>>
    ELSE IF clause.operator \in {"IS NULL", "IS NOT NULL"}
    THEN <<>>
    ELSE <<clause.value>>

\* index === 0 ? '' : clause.boolean + ' '   (index counts from 1 here)
\* a rendering that writes the boolean of every node, the first included
BooleanPrefixOfEveryNode(clause, index) == <<clause.boolean, " ">>

BooleanPrefix(clause, index) ==
    IF index = 1 THEN <<>> ELSE <<clause.boolean, " ">>

RECURSIVE buildWhereClause(_)
buildWhereClause(clauses) ==
    LET nested(i) == buildWhereClause(clauses[i].clauses)
        part(i) ==
            LET clause == clauses[i]
                boolean == BooleanPrefix(clause, i)
            IN  IF clause.type = "basic"
                THEN boolean \o <<clause.column, " ">> \o OperatorPart(clause)
                ELSE IF clause.type = "group"
                THEN boolean \o <<"(">> \o nested(i).sql \o <<")">>
                ELSE boolean \o <<"(">> \o clause.sql \o <<")">>
        pushed(i) ==
            LET clause == clauses[i]
            IN  IF clause.type = "basic" THEN OperatorParams(clause)
                ELSE IF clause.type = "group" THEN nested(i).params
                ELSE clause.params
    IN  [sql |-> Join([i \in 1..Len(clauses) |-> part(i)], " "),
         params |-> Flatten([i \in 1..Len(clauses) |-> pushed(i)])]

\* the callbacks a caller hands to a join: what each does with the builder it
\* is given
InvokeJoinCallback(callback, joinBuilder) ==
    CASE callback = "statusIsLiveOrDraft" ->
            whereIn(joinBuilder, "posts.status", <<Str("live"), Str("draft")>>)
      [] callback = "addsNothing" -> joinBuilder
      [] callback = "nothing" -> joinBuilder

\* a join that is dropped when its callback has added no predicate, as a
\* where(callback) is
addJoinUnlessEmpty(qb, type, table, onCondition) ==
    LET joinBuilder ==
            InvokeJoinCallback(onCondition.callback,
                [NewQueryBuilder(table) EXCEPT !.currentWhereGroup = EmptyGroup])
        inner == buildWhereClause(joinBuilder.currentWhereGroup.clauses)
        conditionSql == IF onCondition.isString THEN <<onCondition.string>> ELSE inner.sql
        conditionParams == IF onCondition.isString THEN <<>> ELSE inner.params
    IN  IF ~onCondition.isString /\ joinBuilder.currentWhereGroup.clauses = <<>>
        THEN qb
        ELSE [qb EXCEPT !.joinClauses =
                            Append(@, [type |-> type, table |-> table,
                                       on |-> conditionSql, params |-> conditionParams])]

\* addJoin(type, table, onCondition): onCondition is a string or a callback
addJoin(qb, type, table, onCondition) ==
    LET joinBuilder ==
            InvokeJoinCallback(onCondition.callback,
                [NewQueryBuilder(table) EXCEPT !.currentWhereGroup = EmptyGroup])
        inner == buildWhereClause(joinBuilder.currentWhereGroup.clauses)
        conditionSql == IF onCondition.isString THEN <<onCondition.string>> ELSE inner.sql
        conditionParams == IF onCondition.isString THEN <<>> ELSE inner.params
    IN  [qb EXCEPT !.joinClauses =
                       Append(@, [type |-> type, table |-> table,
                                  on |-> conditionSql, params |-> conditionParams])]

\* `${value}` in a template literal
Template(value) == IF value = Undefined THEN "undefined" ELSE value.v

\* a test that asks for the operator only
OperatorMissing(operator, secondColumn) == operator = Undefined \/ operator = Str("")

\* !operator || !secondColumn, for arguments that are strings or undefined
OperatorOrSecondColumnMissing(operator, secondColumn) ==
    \/ operator = Undefined \/ operator = Str("")
    \/ secondColumn = Undefined \/ secondColumn = Str("")

\* the condition of a join: the callback, or the text of the string form
JoinCondition(firstColumn, operator, secondColumn) ==
    IF firstColumn.t = "function"
    THEN [isString |-> FALSE, string |-> "", callback |-> firstColumn.v]
    ELSE [isString |-> TRUE,
          string |-> Template(firstColumn) \o " " \o Template(operator) \o " " \o
                     Template(secondColumn),
          callback |-> "nothing"]

\* innerJoin / leftJoin / rightJoin (table, firstColumn, operator,
\* secondColumn): what the call leaves of the builder, and whether it threw
joinOfType(qb, type, table, firstColumn, operator, secondColumn) ==
    IF firstColumn.t = "function"
    THEN [threw |-> FALSE,
          qb |-> addJoin(qb, type, table, JoinCondition(firstColumn, operator, secondColumn))]
    ELSE IF OperatorOrSecondColumnMissing(operator, secondColumn)
    THEN [threw |-> TRUE, qb |-> qb]
    ELSE [threw |-> FALSE,
          qb |-> addJoin(qb, type, table, JoinCondition(firstColumn, operator, secondColumn))]
innerJoin(qb, table, firstColumn, operator, secondColumn) ==
    joinOfType(qb, "INNER", table, firstColumn, operator, secondColumn)
leftJoin(qb, table, firstColumn, operator, secondColumn) ==
    joinOfType(qb, "LEFT", table, firstColumn, operator, secondColumn)
rightJoin(qb, table, firstColumn, operator, secondColumn) ==
    joinOfType(qb, "RIGHT", table, firstColumn, operator, secondColumn)

\* a compilation whose params array is the first join's own array, so that
\* what is pushed after the joins lands in the plan
planAfterBuildSqlSharingParams(qb) ==
    IF qb.joinClauses = <<>> THEN qb
    ELSE [qb EXCEPT !.joinClauses[1].params =
                        @ \o buildWhereClause(qb.whereClauses).params]

\* the plan once buildSql has returned: sql, params and the parts arrays are
\* locals of the call, and no field of the builder is assigned or pushed on
planAfterBuildSql(qb) == qb

\* selectColumns.join(', ') and the like: an array of strings joined by sep
JoinStrings(strs, sep) == Join([i \in 1..Len(strs) |-> <<strs[i]>>], sep)

\* a test that takes 0 for not set, as `if (this.limitValue)` would
IsTruthy(value) == value # Null /\ value # Num(0)

\* this.limitValue !== null, this.offsetValue !== null
IsSet(value) == value # Null

buildSql(qb) ==
    LET selectSql == <<"SELECT ">> \o JoinStrings(qb.selectColumns, ", ") \o
                  <<" FROM ", qb.tableName>>
        joinSql(join) == <<" ", join.type, " JOIN ", join.table, " ON ">> \o join.on
        joins == Flatten([i \in 1..Len(qb.joinClauses) |-> joinSql(qb.joinClauses[i])])
        joinParams == Flatten([i \in 1..Len(qb.joinClauses) |-> qb.joinClauses[i].params])
        where == buildWhereClause(qb.whereClauses)
        hasWhere == Len(qb.whereClauses) > 0
        whereSql == IF hasWhere THEN <<" WHERE ">> \o where.sql ELSE <<>>
        whereParams == IF hasWhere THEN where.params ELSE <<>>
        groupBy == IF Len(qb.groupByColumns) > 0
                   THEN <<" GROUP BY ">> \o JoinStrings(qb.groupByColumns, ", ")
                   ELSE <<>>
        havingPart(h) == <<h.column, " ", h.operator, " ", "?">>
        havingSql == IF Len(qb.havingConditions) > 0
                  THEN <<" HAVING ">> \o
                       Join([i \in 1..Len(qb.havingConditions) |->
                                havingPart(qb.havingConditions[i])], " AND ")
                  ELSE <<>>
        havingParams == [i \in 1..Len(qb.havingConditions) |->
                            qb.havingConditions[i].value]
        orderByPart(o) == <<o[1], " ", o[2]>>
        orderBy == IF Len(qb.orderByConditions) > 0
                   THEN <<" ORDER BY ">> \o
                        Join([i \in 1..Len(qb.orderByConditions) |->
                                 orderByPart(qb.orderByConditions[i])], ", ")
                   ELSE <<>>
        limitSql == IF IsSet(qb.limitValue) THEN <<" LIMIT ", "?">> ELSE <<>>
        limitParams == IF IsSet(qb.limitValue) THEN <<qb.limitValue>> ELSE <<>>
        offsetSql == IF IsSet(qb.offsetValue) THEN <<" OFFSET ", "?">> ELSE <<>>
        offsetParams == IF IsSet(qb.offsetValue) THEN <<qb.offsetValue>> ELSE <<>>
    IN  [sql |-> selectSql \o joins \o whereSql \o groupBy \o havingSql \o orderBy \o
                 limitSql \o offsetSql,
         params |-> joinParams \o whereParams \o havingParams \o limitParams \o
                    offsetParams]

(***************************************************************************)
(* The state.                                                              *)
(***************************************************************************)
VARIABLES
    \* a QueryBuilder under construction by its caller
    builder,
    \* the where/orWhere callbacks that are running, outermost first: the
    \* boolean of the call and the scratch builder handed to the callback
    callbacks,
    \* the call on a builder that returned last: its method, its arguments
    \* (for the callback form, the clauses the callback gave the scratch
    \* builder), the builder it was made on as it was before the call, and
    \* the number of callbacks that builder is inside of, and whether the call
    \* threw instead of returning
    lastCall,
    \* the files of the migrations directory, and those of them that fail to load
    migrationsDir, broken,
    \* the ledger table _fastorm_migrations: whether it exists, and the number
    \* of its rows per name
    ledgerExists, ledger,
    \* the names whose up has completed and whose down has not completed since
    applied,
    \* the run of the migration runner in progress: where it is, which method
    \* it is, its steps argument and its locals
    pc, method, steps, availableMigrations, ranMigrations, migrationsToRollback,
    index,
    \* how the run ended: "ok" or the step that threw
    outcome,
    \* what the run has done so far, and the ledger when it started
    runLog, ledgerAtStart,
    \* how the run before this one ended, when it was a migrateUp run and the
    \* directory has not changed since: "upOk", "upFailed" or "none"
    lastRun,
    \* the idle connections of the pool, the connections that callers hold as
    \* handles beginTransaction returned, and each caller's call in progress
    free, handles, calls,
    \* the rows of table users in id order, and the model's call in progress
    users, modelCall,
    \* the id the next inserted row gets, the hooks registered per event in
    \* registration order, and what the call in progress has done so far
    autoIncrement, hooks, modelLog,
    \* the id create returned last and the data it was called with, until an
    \* UPDATE or a DELETE is executed
    lastCreated,
    \* one Connection object: its fields pool, transactionalConnection and
    \* _isTransactionConnection
    object,
    \* what the driver has been asked by that object: the idle connections of
    \* its pool, the pool.getConnection() and pool.end() calls, the
    \* connections statements and BEGIN were executed on, the release() calls
    \* per connection, the handles callers hold, the calls made so far
    driver,
    \* each caller's call on the object in progress
    objectCalls,
    \* migration runners of several processes on one database and one
    \* directory: the migrateUp run of each, and the number of times the up
    \* of each definition file has been executed
    runners, upCount

qbVars == <<builder, callbacks, lastCall>>

migVars == <<migrationsDir, broken, ledgerExists, ledger, applied, pc, method,
             steps, availableMigrations, ranMigrations, migrationsToRollback,
             index, outcome, runLog, ledgerAtStart, lastRun>>

connVars == <<free, handles, calls>>

modelVars == <<users, modelCall, autoIncrement, hooks, modelLog, lastCreated>>

objVars == <<object, driver, objectCalls>>

raceVars == <<runners, upCount>>

vars == <<qbVars, migVars, connVars, modelVars, objVars, raceVars>>

\* what the steps of one part leave alone: everything of the other parts
notQB == <<migVars, connVars, modelVars, objVars, raceVars>>
notMig == <<qbVars, connVars, modelVars, objVars, raceVars>>
notConn == <<qbVars, migVars, modelVars, objVars, raceVars>>
notModel == <<qbVars, migVars, connVars, objVars, raceVars>>
notObj == <<qbVars, migVars, connVars, modelVars, raceVars>>

(***************************************************************************)
(* MigrationRunner: files, names and their orders.                         *)
(***************************************************************************)
\* the UTF-16 code units of the strings the model uses: Array.prototype.sort
\* without a comparator and ORDER BY compare strings by them
Chars ==
    ("A" :> <<65>>) @@ ("A-x" :> <<65, 45, 120>>) @@ ("B" :> <<66>>) @@
    ("C" :> <<67>>) @@ (".ts" :> <<46, 116, 115>>) @@ (".js" :> <<46, 106, 115>>)

RECURSIVE SeqLess(_, _)
\* a < b for two strings, given as code units
SeqLess(a, b) ==
    IF b = <<>> THEN FALSE
    ELSE IF a = <<>> THEN TRUE
    ELSE IF Head(a) # Head(b) THEN Head(a) < Head(b)
    ELSE SeqLess(Tail(a), Tail(b))

\* a file of the migrations directory: <name><ext>
File(name, ext) == [name |-> name, ext |-> ext]
FileChars(f) == Chars[f.name] \o Chars[f.ext]
FileLess(f, g) == SeqLess(FileChars(f), FileChars(g))
NameLess(m, n) == SeqLess(Chars[m], Chars[n])

\* the files the directory may hold, and the one that may fail to load
Files == {File("A", ".ts"), File("A", ".js"), File("A-x", ".ts"),
          File("B", ".ts"), File("C", ".ts")}
BreakableFiles == {File("B", ".ts")}
Names == {f.name : f \in Files}

RECURSIVE SortFilesByName(_)
\* a sort by migration name, the extension deciding between equal names
SortFilesByName(fs) ==
    IF fs = {} THEN <<>>
    ELSE LET least == CHOOSE f \in fs : \A g \in fs \ {f} :
                          \/ NameLess(f.name, g.name)
                          \/ f.name = g.name /\ FileLess(f, g)
         IN  <<least>> \o SortFilesByName(fs \ {least})

RECURSIVE SortFiles(_)
\* files.sort(): ascending by the code units of the file name
SortFiles(fs) ==
    IF fs = {} THEN <<>>
    ELSE LET least == CHOOSE f \in fs : \A g \in fs \ {f} : FileLess(f, g)
         IN  <<least>> \o SortFiles(fs \ {least})

RECURSIVE SortNames(_)
\* ORDER BY name ASC
SortNames(ns) ==
    IF ns = {} THEN <<>>
    ELSE LET least == CHOOSE n \in ns : \A m \in ns \ {n} : NameLess(n, m)
         IN  <<least>> \o SortNames(ns \ {least})

Reverse(seq) == [i \in 1..Len(seq) |-> seq[Len(seq) + 1 - i]]

\* Array.prototype.slice(0, end) on an array of length n: a negative end
\* counts from the end of the array
Slice0(seq, end) ==
    LET n == Len(seq)
        to == IF end < 0 THEN (IF n + end < 0 THEN 0 ELSE n + end)
              ELSE (IF end > n THEN n ELSE end)
    IN  SubSeq(seq, 1, to)

\* a loader that takes the files in descending order
loadMigrationsReversed(dir, unloadable) ==
    LET migrationFiles == {f \in dir : f.ext = ".ts" \/ f.ext = ".js"}
        loaded == Reverse(SortFiles({f \in migrationFiles : f \notin unloadable}))
    IN  [i \in 1..Len(loaded) |-> [name |-> loaded[i].name, file |-> loaded[i]]]

\* a loader that gives up at the first file that does not load
loadMigrationsUntilOneFails(dir, unloadable) ==
    LET migrationFiles == {f \in dir : f.ext = ".ts" \/ f.ext = ".js"}
        sorted == SortFiles(migrationFiles)
        failing == {i \in 1..Len(sorted) : sorted[i] \in unloadable}
        loaded == IF failing = {} THEN sorted
                  ELSE SubSeq(sorted, 1, (CHOOSE i \in failing : \A j \in failing : i <= j) - 1)
    IN  [i \in 1..Len(loaded) |-> [name |-> loaded[i].name, file |-> loaded[i]]]

\* loadMigrations: the .ts and .js files sorted by file name, each loaded in
\* that order; a file whose load throws is reported and left out; the name
\* is the file name without its extension
loadMigrations(dir, unloadable) ==
    LET migrationFiles == {f \in dir : f.ext = ".ts" \/ f.ext = ".js"}
        loaded == SortFiles({f \in migrationFiles : f \notin unloadable})
    IN  [i \in 1..Len(loaded) |-> [name |-> loaded[i].name, file |-> loaded[i]]]

\* getRanMigrations: SELECT name FROM _fastorm_migrations ORDER BY name ASC
getRanMigrations(rows) ==
    LET sorted == SortNames({n \in Names : rows[n] > 0})
    IN  Flatten([i \in 1..Len(sorted) |-> [k \in 1..rows[sorted[i]] |-> sorted[i]]])

\* ranMigrations.includes(name)
Includes(seq, x) == \E i \in 1..Len(seq) : seq[i] = x

\* a selection that takes the oldest entries first
toRollbackOldestFirst(ran, n) == Slice0(ran, n)

\* ranMigrations.slice().reverse().slice(0, steps)
toRollback(ran, n) == Slice0(Reverse(ran), n)

\* new Map(availableMigrations.map((m) => [m.name, m])): has(name), and
\* get(name), where of two definitions with one name the later one stays
MapHas(available, name) == \E i \in 1..Len(available) : available[i].name = name
MapGet(available, name) ==
    LET hits == {i \in 1..Len(available) : available[i].name = name}
    IN  available[CHOOSE i \in hits : \A j \in hits : j <= i]

(***************************************************************************)
(* MigrationRunner: one run at a time, a step per await.                   *)
(***************************************************************************)
\* the values migrateDown is given for steps
StepsArgs == (0 - 1)..MaxSteps

NoRows == [n \in Names |-> 0]

\* no run in progress
Idle ==
    /\ pc = "idle" /\ method = "none" /\ steps = 0
    /\ availableMigrations = <<>> /\ ranMigrations = <<>>
    /\ migrationsToRollback = <<>> /\ index = 0
    /\ outcome = "none" /\ runLog = <<>> /\ ledgerAtStart = NoRows

InitRunner ==
    /\ migrationsDir = {} /\ broken = {}
    /\ ledgerExists = FALSE /\ ledger = NoRows /\ applied = {}
    /\ lastRun = "none"
    /\ Idle

\* an entry of runLog: what was done, and for which migration
NoFile == File("", "")
Event(op, migration) == [op |-> op, name |-> migration.name, file |-> migration.file]
NoMigration == [name |-> "", file |-> NoFile]

\* the run ends: resolved when how = "ok", rejected by the step how otherwise
Finish(how) == pc' = "done" /\ outcome' = how

\* migrateUp() is called
CallMigrateUp ==
    /\ pc = "idle"
    /\ pc' = "ensure" /\ method' = "up" /\ ledgerAtStart' = ledger
    /\ UNCHANGED <<migrationsDir, broken, ledgerExists, ledger, applied, steps,
                   availableMigrations, ranMigrations, migrationsToRollback,
                   index, outcome, runLog, lastRun, notMig>>

\* migrateDown(steps) is called
CallMigrateDown ==
    \E n \in StepsArgs :
        /\ pc = "idle"
        /\ pc' = "ensure" /\ method' = "down" /\ steps' = n
        /\ ledgerAtStart' = ledger
        /\ UNCHANGED <<migrationsDir, broken, ledgerExists, ledger, applied,
                       availableMigrations, ranMigrations, migrationsToRollback,
                       index, outcome, runLog, lastRun, notMig>>

\* ensureMigrationsTable: CREATE TABLE IF NOT EXISTS
EnsureMigrationsTable ==
    /\ pc = "ensure"
    /\ ledgerExists' = TRUE
    /\ runLog' = Append(runLog, Event("create", NoMigration))
    /\ pc' = IF method = "up" THEN "load" ELSE "getRan"
    /\ UNCHANGED <<migrationsDir, broken, ledger, applied, method, steps,
                   availableMigrations, ranMigrations, migrationsToRollback,
                   index, outcome, ledgerAtStart, lastRun, notMig>>

\* a runner that goes on when the CREATE TABLE statement rejects
EnsureMigrationsTableFailsAndGoesOn ==
    /\ pc = "ensure"
    /\ pc' = IF method = "up" THEN "load" ELSE "getRan"
    /\ UNCHANGED <<migrationsDir, broken, ledgerExists, ledger, applied, method,
                   steps, availableMigrations, ranMigrations,
                   migrationsToRollback, index, outcome, runLog, ledgerAtStart,
                   lastRun, notMig>>

\* the CREATE TABLE statement rejects, and migrateUp or migrateDown with it
EnsureMigrationsTableFails ==
    /\ pc = "ensure"
    /\ Finish("ensure")
    /\ UNCHANGED <<migrationsDir, broken, ledgerExists, ledger, applied, method,
                   steps, availableMigrations, ranMigrations,
                   migrationsToRollback, index, runLog, ledgerAtStart, lastRun, notMig>>

\* loadMigrations
LoadMigrations ==
    /\ pc = "load"
    /\ availableMigrations' = loadMigrations(migrationsDir, broken)
    /\ pc' = IF method = "up" THEN "getRan" ELSE "loop"
    /\ UNCHANGED <<migrationsDir, broken, ledgerExists, ledger, applied, method,
                   steps, ranMigrations, migrationsToRollback, index, outcome,
                   runLog, ledgerAtStart, lastRun, notMig>>

\* fs.readdir throws
LoadMigrationsFails ==
    /\ pc = "load"
    /\ Finish("load")
    /\ UNCHANGED <<migrationsDir, broken, ledgerExists, ledger, applied, method,
                   steps, availableMigrations, ranMigrations,
                   migrationsToRollback, index, runLog, ledgerAtStart, lastRun, notMig>>

\* getRanMigrations, and what follows it up to the next await
GetRanMigrations ==
    /\ pc = "getRan"
    /\ ledgerExists
    /\ LET ran == getRanMigrations(ledger)
       IN  /\ ranMigrations' = ran
           /\ runLog' = Append(runLog, Event("read", NoMigration))
           /\ index' = 1
           /\ IF method = "up"
              THEN /\ pc' = "loop"
                   /\ UNCHANGED <<migrationsToRollback, outcome>>
              ELSE IF Len(ran) = 0
              THEN Finish("ok") /\ UNCHANGED migrationsToRollback
              ELSE /\ migrationsToRollback' = toRollback(ran, steps)
                   /\ pc' = "load"
                   /\ UNCHANGED outcome
    /\ UNCHANGED <<migrationsDir, broken, ledgerExists, ledger, applied, method,
                   steps, availableMigrations, ledgerAtStart, lastRun, notMig>>

GetRanMigrationsFails ==
    /\ pc = "getRan"
    /\ Finish("getRan")
    /\ UNCHANGED <<migrationsDir, broken, ledgerExists, ledger, applied, method,
                   steps, availableMigrations, ranMigrations,
                   migrationsToRollback, index, runLog, ledgerAtStart, lastRun, notMig>>

\* a loop that runs every available migration, whatever the ledger says
PendingWithoutLedger == index..Len(availableMigrations)

\* migrateUp's loop: the indices from index on whose migration is not in
\* ranMigrations
Pending == {i \in index..Len(availableMigrations) :
               ~Includes(ranMigrations, availableMigrations[i].name)}
NextPending == CHOOSE i \in Pending : \A j \in Pending : i <= j

\* migration.up(connection) completes
RunUp ==
    /\ pc = "loop" /\ method = "up" /\ Pending # {}
    /\ LET migration == availableMigrations[NextPending]
       IN  /\ applied' = applied \cup {migration.name}
           /\ runLog' = Append(runLog, Event("up", migration))
    /\ index' = NextPending
    /\ pc' = "insert"
    /\ UNCHANGED <<migrationsDir, broken, ledgerExists, ledger, method, steps,
                   availableMigrations, ranMigrations, migrationsToRollback,
                   outcome, ledgerAtStart, lastRun, notMig>>

\* a runner that reports a failing up and goes on with the next migration
RunUpFailsAndGoesOn ==
    /\ pc = "loop" /\ method = "up" /\ Pending # {}
    /\ runLog' = Append(runLog, Event("upFailed", availableMigrations[NextPending]))
    /\ index' = NextPending
    /\ UNCHANGED <<migrationsDir, broken, ledgerExists, ledger, applied, pc, method,
                   steps, availableMigrations, ranMigrations,
                   migrationsToRollback, outcome, ledgerAtStart, lastRun, notMig>>

\* migration.up(connection) throws
RunUpFails ==
    /\ pc = "loop" /\ method = "up" /\ Pending # {}
    /\ runLog' = Append(runLog, Event("upFailed", availableMigrations[NextPending]))
    /\ index' = NextPending
    /\ Finish("up")
    /\ UNCHANGED <<migrationsDir, broken, ledgerExists, ledger, applied, method,
                   steps, availableMigrations, ranMigrations,
                   migrationsToRollback, ledgerAtStart, lastRun, notMig>>

\* INSERT INTO _fastorm_migrations (name) VALUES (?): name is UNIQUE
InsertRow ==
    /\ pc = "insert"
    /\ LET migration == availableMigrations[index]
       IN  /\ ledger[migration.name] = 0
           /\ ledger' = [ledger EXCEPT ![migration.name] = @ + 1]
           /\ runLog' = Append(runLog, Event("insert", migration))
    /\ index' = index + 1
    /\ pc' = "loop"
    /\ UNCHANGED <<migrationsDir, broken, ledgerExists, applied, method, steps,
                   availableMigrations, ranMigrations, migrationsToRollback,
                   outcome, ledgerAtStart, lastRun, notMig>>

InsertRowFails ==
    /\ pc = "insert"
    /\ Finish("insert")
    /\ UNCHANGED <<migrationsDir, broken, ledgerExists, ledger, applied, method,
                   steps, availableMigrations, ranMigrations,
                   migrationsToRollback, index, runLog, ledgerAtStart, lastRun, notMig>>

\* the loop of migrateUp or migrateDown has no entry left
LoopEnds ==
    /\ pc = "loop"
    /\ IF method = "up" THEN Pending = {} ELSE index > Len(migrationsToRollback)
    /\ Finish("ok")
    /\ UNCHANGED <<migrationsDir, broken, ledgerExists, ledger, applied, method,
                   steps, availableMigrations, ranMigrations,
                   migrationsToRollback, index, runLog, ledgerAtStart, lastRun, notMig>>

\* migrateDown's loop is at an entry
AtRollback ==
    pc = "loop" /\ method = "down" /\ index <= Len(migrationsToRollback)

\* a runner that deletes the ledger row of an entry it has no definition for
SkipRollbackDeletesRow ==
    /\ AtRollback
    /\ ~MapHas(availableMigrations, migrationsToRollback[index])
    /\ runLog' = Append(runLog, Event("skip", [name |-> migrationsToRollback[index],
                                               file |-> NoFile]))
    /\ ledger' = [ledger EXCEPT ![migrationsToRollback[index]] = 0]
    /\ index' = index + 1
    /\ UNCHANGED <<migrationsDir, broken, ledgerExists, applied, pc,
                   method, steps, availableMigrations, ranMigrations,
                   migrationsToRollback, outcome, ledgerAtStart, lastRun, notMig>>

\* the entry has no definition: a warning, and on to the next entry
SkipRollback ==
    /\ AtRollback
    /\ ~MapHas(availableMigrations, migrationsToRollback[index])
    /\ runLog' = Append(runLog, Event("skip", [name |-> migrationsToRollback[index],
                                               file |-> NoFile]))
    /\ index' = index + 1
    /\ UNCHANGED <<migrationsDir, broken, ledgerExists, ledger, applied, pc,
                   method, steps, availableMigrations, ranMigrations,
                   migrationsToRollback, outcome, ledgerAtStart, lastRun, notMig>>

\* migration.down(connection) completes
RunDown ==
    /\ AtRollback
    /\ MapHas(availableMigrations, migrationsToRollback[index])
    /\ LET migration == MapGet(availableMigrations, migrationsToRollback[index])
       IN  /\ applied' = applied \ {migration.name}
           /\ runLog' = Append(runLog, Event("down", migration))
    /\ pc' = "delete"
    /\ UNCHANGED <<migrationsDir, broken, ledgerExists, ledger, method, steps,
                   availableMigrations, ranMigrations, migrationsToRollback,
                   index, outcome, ledgerAtStart, lastRun, notMig>>

\* migration.down(connection) throws
RunDownFails ==
    /\ AtRollback
    /\ MapHas(availableMigrations, migrationsToRollback[index])
    /\ runLog' = Append(runLog, Event("downFailed",
                        MapGet(availableMigrations, migrationsToRollback[index])))
    /\ Finish("down")
    /\ UNCHANGED <<migrationsDir, broken, ledgerExists, ledger, applied, method,
                   steps, availableMigrations, ranMigrations,
                   migrationsToRollback, index, ledgerAtStart, lastRun, notMig>>

\* DELETE FROM _fastorm_migrations WHERE name = ?
DeleteRow ==
    /\ pc = "delete"
    /\ LET migration == MapGet(availableMigrations, migrationsToRollback[index])
       IN  /\ ledger' = [ledger EXCEPT ![migration.name] = 0]
           /\ runLog' = Append(runLog, Event("delete", migration))
    /\ index' = index + 1
    /\ pc' = "loop"
    /\ UNCHANGED <<migrationsDir, broken, ledgerExists, applied, method, steps,
                   availableMigrations, ranMigrations, migrationsToRollback,
                   outcome, ledgerAtStart, lastRun, notMig>>

DeleteRowFails ==
    /\ pc = "delete"
    /\ Finish("delete")
    /\ UNCHANGED <<migrationsDir, broken, ledgerExists, ledger, applied, method,
                   steps, availableMigrations, ranMigrations,
                   migrationsToRollback, index, runLog, ledgerAtStart, lastRun, notMig>>

\* the caller has the run's result; the runner keeps nothing of the run
Return ==
    /\ pc = "done"
    /\ pc' = "idle" /\ method' = "none" /\ steps' = 0
    /\ availableMigrations' = <<>> /\ ranMigrations' = <<>>
    /\ migrationsToRollback' = <<>> /\ index' = 0
    /\ outcome' = "none" /\ runLog' = <<>> /\ ledgerAtStart' = NoRows
    /\ lastRun' = (IF method # "up" THEN "none"
                   ELSE IF outcome = "ok" THEN "upOk" ELSE "upFailed")
    /\ UNCHANGED <<migrationsDir, broken, ledgerExists, ledger, applied, notMig>>

\* between two runs a definition file appears in the directory or leaves it,
\* and a file may be one that does not load
AddFile ==
    \E f \in Files \ migrationsDir :
        /\ pc = "idle"
        /\ migrationsDir' = migrationsDir \cup {f}
        /\ \/ broken' = broken
           \/ f \in BreakableFiles /\ broken' = broken \cup {f}
        /\ lastRun' = "none"
        /\ UNCHANGED <<ledgerExists, ledger, applied, pc, method, steps,
                       availableMigrations, ranMigrations, migrationsToRollback,
                       index, outcome, runLog, ledgerAtStart, notMig>>

RemoveFile ==
    \E f \in migrationsDir :
        /\ pc = "idle"
        /\ migrationsDir' = migrationsDir \ {f}
        /\ broken' = broken \ {f}
        /\ lastRun' = "none"
        /\ UNCHANGED <<ledgerExists, ledger, applied, pc, method, steps,
                       availableMigrations, ranMigrations, migrationsToRollback,
                       index, outcome, runLog, ledgerAtStart, notMig>>

(***************************************************************************)
(* Several MigrationRunners, one per process, on the same database and the *)
(* same directory: each makes one migrateUp run, and the runs interleave   *)
(* at their awaits.  Nothing in migrateUp locks the ledger.                *)
(***************************************************************************)
Runners == 1..MaxRunners

\* a runner whose migrateUp has not been called: its place and its locals
NotStarted ==
    [pc |-> "idle", availableMigrations |-> <<>>, ranMigrations |-> <<>>,
     index |-> 0, outcome |-> "none"]

InitRunners ==
    /\ runners = [r \in Runners |-> NotStarted]
    /\ upCount = [f \in Files |-> 0]

\* what a step of these runners leaves alone: the single runner's run and
\* the other parts
oneRun == <<pc, method, steps, availableMigrations, ranMigrations,
            migrationsToRollback, index, outcome, runLog, ledgerAtStart, lastRun>>
notRace == <<qbVars, connVars, modelVars, objVars>>

\* the directory is filled before any of the runs starts
PutFile ==
    /\ \A r \in Runners : runners[r].pc = "idle"
    /\ AddFile

\* migrateUp() is called on runner r
StartMigrateUp(r) ==
    /\ runners[r].pc = "idle"
    /\ runners' = [runners EXCEPT ![r].pc = "ensure"]
    /\ UNCHANGED <<migrationsDir, broken, ledgerExists, ledger, applied, upCount,
                   oneRun, notRace>>

\* ensureMigrationsTable resolves
RunnerEnsures(r) ==
    /\ runners[r].pc = "ensure"
    /\ ledgerExists' = TRUE
    /\ runners' = [runners EXCEPT ![r].pc = "load"]
    /\ UNCHANGED <<migrationsDir, broken, ledger, applied, upCount, oneRun, notRace>>

\* loadMigrations resolves
RunnerLoads(r) ==
    /\ runners[r].pc = "load"
    /\ runners' = [runners EXCEPT
          ![r].availableMigrations = loadMigrations(migrationsDir, broken),
          ![r].pc = "getRan"]
    /\ UNCHANGED <<migrationsDir, broken, ledgerExists, ledger, applied, upCount,
                   oneRun, notRace>>

\* getRanMigrations resolves with the ledger as it is now
RunnerGetsRan(r) ==
    /\ runners[r].pc = "getRan"
    /\ ledgerExists
    /\ runners' = [runners EXCEPT
          ![r].ranMigrations = getRanMigrations(ledger),
          ![r].index = 1,
          ![r].pc = "loop"]
    /\ UNCHANGED <<migrationsDir, broken, ledgerExists, ledger, applied, upCount,
                   oneRun, notRace>>

\* the CREATE TABLE statement, fs.readdir or the SELECT rejects
RunnerAwaitFails(r) ==
    /\ runners[r].pc \in {"ensure", "load", "getRan"}
    /\ runners' = [runners EXCEPT ![r].pc = "done", ![r].outcome = runners[r].pc]
    /\ UNCHANGED <<migrationsDir, broken, ledgerExists, ledger, applied, upCount,
                   oneRun, notRace>>

\* the loop of runner r: the indices from index on whose migration is not in
\* the ranMigrations it read
PendingOf(r) ==
    {i \in runners[r].index..Len(runners[r].availableMigrations) :
        ~Includes(runners[r].ranMigrations, runners[r].availableMigrations[i].name)}
NextPendingOf(r) == CHOOSE i \in PendingOf(r) : \A j \in PendingOf(r) : i <= j

\* migration.up(connection) completes
RunnerUp(r) ==
    /\ runners[r].pc = "loop" /\ PendingOf(r) # {}
    /\ LET migration == runners[r].availableMigrations[NextPendingOf(r)]
       IN  /\ applied' = applied \cup {migration.name}
           /\ upCount' = [upCount EXCEPT ![migration.file] = @ + 1]
    /\ runners' = [runners EXCEPT ![r].index = NextPendingOf(r), ![r].pc = "insert"]
    /\ UNCHANGED <<migrationsDir, broken, ledgerExists, ledger, oneRun, notRace>>

\* migration.up(connection) throws
RunnerUpFails(r) ==
    /\ runners[r].pc = "loop" /\ PendingOf(r) # {}
    /\ runners' = [runners EXCEPT ![r].index = NextPendingOf(r), ![r].pc = "done",
                                  ![r].outcome = "up"]
    /\ UNCHANGED <<migrationsDir, broken, ledgerExists, ledger, applied, upCount,
                   oneRun, notRace>>

\* INSERT INTO _fastorm_migrations (name) VALUES (?): name is UNIQUE
RunnerInserts(r) ==
    /\ runners[r].pc = "insert"
    /\ LET migration == runners[r].availableMigrations[runners[r].index]
       IN  /\ ledger[migration.name] = 0
           /\ ledger' = [ledger EXCEPT ![migration.name] = @ + 1]
    /\ runners' = [runners EXCEPT ![r].index = @ + 1, ![r].pc = "loop"]
    /\ UNCHANGED <<migrationsDir, broken, ledgerExists, applied, upCount, oneRun,
                   notRace>>

\* the INSERT rejects: with a duplicate-key error when the name is in the
\* ledger by now, or for a reason of the driver's
RunnerInsertFails(r) ==
    /\ runners[r].pc = "insert"
    /\ runners' = [runners EXCEPT ![r].pc = "done", ![r].outcome = "insert"]
    /\ UNCHANGED <<migrationsDir, broken, ledgerExists, ledger, applied, upCount,
                   oneRun, notRace>>

\* the loop has no entry left
RunnerLoopEnds(r) ==
    /\ runners[r].pc = "loop" /\ PendingOf(r) = {}
    /\ runners' = [runners EXCEPT ![r].pc = "done", ![r].outcome = "ok"]
    /\ UNCHANGED <<migrationsDir, broken, ledgerExists, ledger, applied, upCount,
                   oneRun, notRace>>

(***************************************************************************)
(* The query builder's caller: a chain of where-family calls on one        *)
(* builder.  A call made while a callback runs is made on the builder that *)
(* callback was handed.                                                    *)
(***************************************************************************)
\* the arguments the calls are drawn from
BasicArgs ==
    {<<"age", Str(">"), Num(18)>>,
     <<"vip", Str("="), Bool(TRUE)>>,
     <<"vip", Str("="), Undefined>>,
     <<"vip", Str("="), Bool(FALSE)>>,
     <<"deleted_at", Str("="), Null>>,
     <<"tags", Str("="), Arr(<<Str("a"), Str("b")>>)>>}
InArgs ==
    {<<"status", <<Str("active"), Str("pending")>>>>,
     <<"status", <<>>>>}
NullColumns == {"deleted_at"}
BetweenArgs == {<<"age", Num(18), Num(65)>>}
RawArgs == {<<<<"score > ", "?">>, <<Num(10)>>>>}
JoinArgs ==
    {<<"posts", Str("users.id"), Str("="), Str("posts.user_id")>>,
     <<"posts", Function("statusIsLiveOrDraft"), Undefined, Undefined>>,
     <<"posts", Str("users.id"), Undefined, Str("posts.user_id")>>,
     <<"posts", Str("users.id"), Str("="), Undefined>>,
     <<"posts", Str("users.id"), Undefined, Undefined>>}
CallbackJoinArgs ==
    {<<"posts", Function("statusIsLiveOrDraft"), Undefined, Undefined>>,
     <<"posts", Function("addsNothing"), Undefined, Undefined>>}
JoinTypes == {"INNER", "LEFT", "RIGHT"}
HavingArgs == {<<"total", ">", Num(100)>>, <<"age", "<", Num(65)>>}
LimitArgs == {Num(0), Num(10)}
OffsetArgs == {Num(20)}

RECURSIVE Size(_)
\* the number of clause nodes of a predicate sequence, nested ones included
Size(clauses) ==
    IF clauses = <<>> THEN 0
    ELSE (IF Head(clauses).type = "group" THEN 1 + Size(Head(clauses).clauses) ELSE 1)
         + Size(Tail(clauses))

\* the nodes given so far; a callback that is running counts as the group it
\* is about to become
TotalSize ==
    Len(builder.joinClauses) + Len(builder.havingConditions) +
    Size(builder.whereClauses) + Len(callbacks) +
    Size(Flatten([i \in 1..Len(callbacks) |->
                     callbacks[i].nestedBuilder.currentWhereGroup.clauses]))

\* the builder the next call is made on
Target == IF callbacks = <<>> THEN builder
          ELSE callbacks[Len(callbacks)].nestedBuilder

\* no call on a builder has returned yet
NoCallYet ==
    [method |-> "", args |-> <<>>, before |-> NewQueryBuilder("users"), depth |-> 0,
     threw |-> FALSE]

\* the builder the call that returned last was made on, as it is now
Callee ==
    IF lastCall.depth = 0 THEN builder
    ELSE callbacks[lastCall.depth].nestedBuilder

\* the state after the call of the method has turned the target builder into qb
Apply(called, args, qb) ==
    /\ lastCall' = [method |-> called, args |-> args, before |-> Target,
                    depth |-> Len(callbacks), threw |-> FALSE]
    /\ IF callbacks = <<>>
       THEN builder' = qb /\ UNCHANGED <<callbacks, notQB>>
       ELSE /\ callbacks' = [callbacks EXCEPT ![Len(callbacks)].nestedBuilder = qb]
            /\ UNCHANGED <<builder, notQB>>

CanAppend == TotalSize < MaxClauses

Where ==
    \E a \in BasicArgs : CanAppend /\ Apply("where", a, whereString(Target, a[1], a[2], a[3]))
OrWhere ==
    \E a \in BasicArgs : CanAppend /\ Apply("orWhere", a, orWhereString(Target, a[1], a[2], a[3]))
WhereIn == \E a \in InArgs : CanAppend /\ Apply("whereIn", a, whereIn(Target, a[1], a[2]))
OrWhereIn == \E a \in InArgs : CanAppend /\ Apply("orWhereIn", a, orWhereIn(Target, a[1], a[2]))
WhereNotIn == \E a \in InArgs : CanAppend /\ Apply("whereNotIn", a, whereNotIn(Target, a[1], a[2]))
OrWhereNotIn == \E a \in InArgs : CanAppend /\ Apply("orWhereNotIn", a, orWhereNotIn(Target, a[1], a[2]))
WhereNull == \E c \in NullColumns : CanAppend /\ Apply("whereNull", <<c>>, whereNull(Target, c))
OrWhereNull == \E c \in NullColumns : CanAppend /\ Apply("orWhereNull", <<c>>, orWhereNull(Target, c))
WhereNotNull == \E c \in NullColumns : CanAppend /\ Apply("whereNotNull", <<c>>, whereNotNull(Target, c))
OrWhereNotNull == \E c \in NullColumns : CanAppend /\ Apply("orWhereNotNull", <<c>>, orWhereNotNull(Target, c))
WhereBetween ==
    \E a \in BetweenArgs : CanAppend /\ Apply("whereBetween", a, whereBetween(Target, a[1], a[2], a[3]))
OrWhereBetween ==
    \E a \in BetweenArgs : CanAppend /\ Apply("orWhereBetween", a, orWhereBetween(Target, a[1], a[2], a[3]))
WhereNotBetween ==
    \E a \in BetweenArgs : CanAppend /\ Apply("whereNotBetween", a, whereNotBetween(Target, a[1], a[2], a[3]))
OrWhereNotBetween ==
    \E a \in BetweenArgs : CanAppend /\ Apply("orWhereNotBetween", a, orWhereNotBetween(Target, a[1], a[2], a[3]))
WhereRaw == \E a \in RawArgs : CanAppend /\ Apply("whereRaw", a, whereRaw(Target, a[1], a[2]))
OrWhereRaw == \E a \in RawArgs : CanAppend /\ Apply("orWhereRaw", a, orWhereRaw(Target, a[1], a[2]))

\* the state after the call of the method has thrown: the builder is as the
\* call left it
Throw(called, args, qb) ==
    /\ lastCall' = [method |-> called, args |-> args, before |-> Target,
                    depth |-> Len(callbacks), threw |-> TRUE]
    /\ builder' = qb
    /\ UNCHANGED <<callbacks, notQB>>

\* the calls that shape the rest of the statement, made on the builder itself
InnerJoin ==
    \E a \in JoinArgs :
        /\ callbacks = <<>> /\ CanAppend
        /\ LET returned == innerJoin(builder, a[1], a[2], a[3], a[4])
           IN  IF returned.threw THEN Throw("innerJoin", a, returned.qb)
               ELSE Apply("innerJoin", a, returned.qb)
LeftJoin ==
    \E a \in JoinArgs :
        /\ callbacks = <<>> /\ CanAppend
        /\ LET returned == leftJoin(builder, a[1], a[2], a[3], a[4])
           IN  IF returned.threw THEN Throw("leftJoin", a, returned.qb)
               ELSE Apply("leftJoin", a, returned.qb)
RightJoin ==
    \E a \in JoinArgs :
        /\ callbacks = <<>> /\ CanAppend
        /\ LET returned == rightJoin(builder, a[1], a[2], a[3], a[4])
           IN  IF returned.threw THEN Throw("rightJoin", a, returned.qb)
               ELSE Apply("rightJoin", a, returned.qb)
Having ==
    \E a \in HavingArgs :
        callbacks = <<>> /\ CanAppend /\ Apply("having", a, having(builder, a[1], a[2], a[3]))
Limit == \E n \in LimitArgs : callbacks = <<>> /\ Apply("limit", <<n>>, limit(builder, n))
Offset == \E n \in OffsetArgs : callbacks = <<>> /\ Apply("offset", <<n>>, offset(builder, n))

\* the method that joins with a type
JoinMethod(type) ==
    CASE type = "INNER" -> "innerJoin"
      [] type = "LEFT" -> "leftJoin"
      [] type = "RIGHT" -> "rightJoin"

\* innerJoin / leftJoin / rightJoin (table, callback)
JoinWithCallback ==
    \E type \in JoinTypes, a \in CallbackJoinArgs :
        /\ callbacks = <<>> /\ CanAppend
        /\ Apply(JoinMethod(type), a,
                 joinOfType(builder, type, a[1], a[2], a[3], a[4]).qb)

\* get() / getRaw() up to the return of buildSql: the statement it returned
\* is kept as the argument of the call
BuildSql ==
    /\ callbacks = <<>>
    /\ Apply("buildSql", <<buildSql(builder)>>, planAfterBuildSql(builder))

\* the arguments of select, and of count, sum and avg
SelectArgs == {<<>>, <<"id", "name">>}
AggregateArgs == {"*", "price"}

Select ==
    \E columns \in SelectArgs :
        callbacks = <<>> /\ Apply("select", <<columns>>, select(builder, columns))

\* the terminal operations up to the return of buildSql: the statement sent
\* to connection.query is kept as the last argument of the call
Count ==
    \E column \in AggregateArgs :
        /\ callbacks = <<>>
        /\ Apply("count", <<column, buildSql(count(builder, column))>>, count(builder, column))
Sum ==
    \E column \in AggregateArgs :
        /\ callbacks = <<>>
        /\ Apply("sum", <<column, buildSql(sum(builder, column))>>, sum(builder, column))
Avg ==
    \E column \in AggregateArgs :
        /\ callbacks = <<>>
        /\ Apply("avg", <<column, buildSql(avg(builder, column))>>, avg(builder, column))
First ==
    /\ callbacks = <<>>
    /\ Apply("first", <<buildSql(limit(builder, Num(1)))>>, first(builder))
CallGet ==
    /\ callbacks = <<>>
    /\ Apply("get", <<buildSql(builder)>>, builder)

\* new QueryBuilder(this.tableName, this.connection) with currentWhereGroup = []
NestedBuilder(qb) ==
    [NewQueryBuilder(qb.tableName) EXCEPT !.currentWhereGroup = EmptyGroup]

\* where(callback) / orWhere(callback) up to the call of the callback
WhereCallbackCall ==
    /\ CanAppend
    /\ callbacks' = Append(callbacks,
                           [boolean |-> "AND", nestedBuilder |-> NestedBuilder(Target)])
    /\ UNCHANGED <<builder, lastCall, notQB>>
OrWhereCallbackCall ==
    /\ CanAppend
    /\ callbacks' = Append(callbacks,
                           [boolean |-> "OR", nestedBuilder |-> NestedBuilder(Target)])
    /\ UNCHANGED <<builder, lastCall, notQB>>

\* where(callback) / orWhere(callback) from the return of the callback on
CallbackReturn ==
    /\ callbacks # <<>>
    /\ LET top == callbacks[Len(callbacks)]
           rest == SubSeq(callbacks, 1, Len(callbacks) - 1)
           outer == IF rest = <<>> THEN builder ELSE rest[Len(rest)].nestedBuilder
           after == whereCallbackReturn(outer, top.boolean, top.nestedBuilder)
       IN  /\ lastCall' = [method |-> (IF top.boolean = "AND" THEN "where" ELSE "orWhere"),
                          args |-> <<"callback",
                                     top.nestedBuilder.currentWhereGroup.clauses>>,
                          before |-> outer, depth |-> Len(rest), threw |-> FALSE]
           /\ IF rest = <<>>
              THEN builder' = after /\ callbacks' = <<>>
              ELSE /\ callbacks' = [rest EXCEPT ![Len(rest)].nestedBuilder = after]
                   /\ UNCHANGED builder
    /\ UNCHANGED notQB

\* a fresh builder on table users, nothing called yet
InitBuilder ==
    /\ builder = NewQueryBuilder("users")
    /\ callbacks = <<>>
    /\ lastCall = NoCallYet

(***************************************************************************)
(* Connection and FastOrm.transaction: the pool-backed Connection of a     *)
(* FastOrm, used by callers whose calls interleave at their awaits.        *)
(***************************************************************************)
Callers == 1..MaxCallers
Conns == 1..PoolSize

\* a caller that is not in a call; connection is the local of that name of
\* the method called (0: undefined), inner the local of the beginTransaction
\* that FastOrm.transaction calls, checkedOut the connection the call took
\* from the pool, released the number of release() calls it made, rollback
\* whether FastOrm.transaction has called rollbackTransaction
NoCall ==
    [op |-> "none", at |-> "idle", connection |-> 0, inner |-> 0,
     checkedOut |-> 0, released |-> 0, executed |-> 0, rollback |-> FALSE,
     result |-> "none"]

\* new Connection(config): a pool with every connection idle
InitPool ==
    /\ free = Conns
    /\ handles = {}
    /\ calls = [c \in Callers |-> NoCall]

\* the call ends with result, its finally having called releaseConnection:
\* connection.release()
Released(c, result) ==
    /\ free' = free \cup {calls[c].connection}
    /\ calls' = [calls EXCEPT ![c].released = @ + 1, ![c].at = "done",
                              ![c].result = result]

\* connection.query(sql, params) is called
CallQuery(c) ==
    /\ calls[c].at = "idle"
    /\ calls' = [calls EXCEPT ![c] = [NoCall EXCEPT !.op = "query", !.at = "getConnection"]]
    /\ UNCHANGED <<free, handles, notConn>>

\* connection.beginTransaction() is called on the pool-backed Connection:
\* _isTransactionConnection is false
CallBeginTransaction(c) ==
    /\ calls[c].at = "idle"
    /\ calls' = [calls EXCEPT ![c] = [NoCall EXCEPT !.op = "beginTransaction",
                                                    !.at = "getConnection"]]
    /\ UNCHANGED <<free, handles, notConn>>

\* orm.transaction(callback) is called: it calls connection.beginTransaction()
CallTransaction(c) ==
    /\ calls[c].at = "idle"
    /\ calls' = [calls EXCEPT ![c] = [NoCall EXCEPT !.op = "transaction",
                                                    !.at = "getConnection"]]
    /\ UNCHANGED <<free, handles, notConn>>

\* getActiveConnection: pool.getConnection() resolves with an idle connection
\* (it waits while there is none)
GetConnection(c) ==
    /\ calls[c].at = "getConnection"
    /\ \E k \in free :
          /\ free' = free \ {k}
          /\ calls' = [calls EXCEPT
                ![c].checkedOut = k,
                ![c].connection = IF calls[c].op = "transaction" THEN 0 ELSE k,
                ![c].inner = IF calls[c].op = "transaction" THEN k ELSE 0,
                ![c].at = IF calls[c].op = "query" THEN "execute" ELSE "begin"]
    /\ UNCHANGED <<handles, notConn>>

\* pool.getConnection() rejects: connection stays undefined, so query's
\* finally releases nothing, and FastOrm.transaction neither rolls back nor
\* releases
GetConnectionFails(c) ==
    /\ calls[c].at = "getConnection"
    /\ calls' = [calls EXCEPT ![c].at = "done", ![c].result = "error"]
    /\ UNCHANGED <<free, handles, notConn>>

\* query: connection.execute(sql, params) resolves; finally releases
Execute(c) ==
    /\ calls[c].op = "query" /\ calls[c].at = "execute"
    /\ Released(c, "rows")
    /\ UNCHANGED <<handles, notConn>>

\* a query without its finally: a rejection leaves with the connection
\* checked out
ExecuteFailsAndKeeps(c) ==
    /\ calls[c].op = "query" /\ calls[c].at = "execute"
    /\ calls' = [calls EXCEPT ![c].at = "done", ![c].result = "error"]
    /\ UNCHANGED <<free, handles, notConn>>

\* query: connection.execute(sql, params) rejects; finally releases
ExecuteFails(c) ==
    /\ calls[c].op = "query" /\ calls[c].at = "execute"
    /\ Released(c, "error")
    /\ UNCHANGED <<handles, notConn>>

\* beginTransaction: connection.beginTransaction() resolves and the
\* connection is returned; FastOrm.transaction assigns it to its local and
\* calls the callback
Begin(c) ==
    /\ calls[c].at = "begin"
    /\ IF calls[c].op = "beginTransaction"
       THEN /\ calls' = [calls EXCEPT ![c].at = "done", ![c].result = "handle"]
            /\ handles' = handles \cup {calls[c].connection}
       ELSE /\ calls' = [calls EXCEPT ![c].connection = calls[c].inner,
                                      ![c].at = "callback"]
            /\ UNCHANGED handles
    /\ UNCHANGED <<free, notConn>>

\* beginTransaction: connection.beginTransaction() rejects and the rejection
\* leaves beginTransaction; in FastOrm.transaction the local connection is
\* still undefined, so catch does not roll back and finally does not release
BeginFails(c) ==
    /\ calls[c].at = "begin"
    /\ calls' = [calls EXCEPT ![c].at = "done", ![c].result = "error"]
    /\ UNCHANGED <<free, handles, notConn>>

\* the callback of FastOrm.transaction runs a query on trxConnection, the
\* Connection made of the handle: getActiveConnection returns the handle,
\* and nothing is released
CallbackQuery(c) ==
    /\ calls[c].at = "callback"
    /\ calls[c].executed < MaxQueries
    /\ calls' = [calls EXCEPT ![c].executed = @ + 1]
    /\ UNCHANGED <<free, handles, notConn>>

\* the callback resolves: commitTransaction is called
CallbackReturns(c) ==
    /\ calls[c].at = "callback"
    /\ calls' = [calls EXCEPT ![c].at = "commit"]
    /\ UNCHANGED <<free, handles, notConn>>

\* the callback rejects: catch calls rollbackTransaction
CallbackThrows(c) ==
    /\ calls[c].at = "callback"
    /\ calls' = [calls EXCEPT ![c].at = "rollback", ![c].rollback = TRUE]
    /\ UNCHANGED <<free, handles, notConn>>

\* connection.commit() resolves: the result is returned, finally releases
Commit(c) ==
    /\ calls[c].at = "commit"
    /\ Released(c, "value")
    /\ UNCHANGED <<handles, notConn>>

\* connection.commit() rejects: catch calls rollbackTransaction
CommitFails(c) ==
    /\ calls[c].at = "commit"
    /\ calls' = [calls EXCEPT ![c].at = "rollback", ![c].rollback = TRUE]
    /\ UNCHANGED <<free, handles, notConn>>

\* connection.rollback() resolves: the error is rethrown, finally releases
Rollback(c) ==
    /\ calls[c].at = "rollback"
    /\ Released(c, "error")
    /\ UNCHANGED <<handles, notConn>>

\* connection.rollback() rejects inside catch: that error leaves the call,
\* finally releases
RollbackFails(c) ==
    /\ calls[c].at = "rollback"
    /\ Released(c, "rollbackError")
    /\ UNCHANGED <<handles, notConn>>

\* the caller has the outcome of its call
ReturnCall(c) ==
    /\ calls[c].at = "done"
    /\ calls' = [calls EXCEPT ![c] = NoCall]
    /\ UNCHANGED <<free, handles, notConn>>

\* the holder of a handle that beginTransaction returned is done with it:
\* releaseConnection(connection) on the pool-backed Connection
ReleaseConnection ==
    /\ \E k \in handles :
          /\ handles' = handles \ {k}
          /\ free' = free \cup {k}
    /\ UNCHANGED <<calls, notConn>>

(***************************************************************************)
(* Connection, as one object: made of a configuration (pool-backed) or of  *)
(* a connection (transaction-bound), and called by callers whose calls     *)
(* interleave at their awaits.                                             *)
(***************************************************************************)
\* the connection a transaction-bound Connection is made of: not one of the
\* object's own pool
Wrapped == PoolSize + 1

\* before new Connection(...)
NotConstructed ==
    [constructed |-> FALSE, pool |-> FALSE, transactionalConnection |-> 0,
     isTransactionConnection |-> FALSE]

\* a caller that is not in a call on the object; connection is the local of
\* that name (0: undefined), given the argument of releaseConnection, before
\* the fields of the object when the call was made
NoObjectCall ==
    [op |-> "none", at |-> "idle", connection |-> 0, given |-> 0,
     result |-> "none", before |-> NotConstructed]

InitObject ==
    /\ object = NotConstructed
    /\ driver = [free |-> {}, getConnectionCalls |-> 0, poolEndCalls |-> 0,
                 executedOn |-> {}, begunOn |-> {},
                 releaseCalls |-> [k \in 1..Wrapped |-> 0],
                 held |-> {}, made |-> 0]
    /\ objectCalls = [c \in Callers |-> NoObjectCall]

\* new Connection(config): 'execute' is not in a configuration
ConstructWithConfig ==
    /\ ~object.constructed
    /\ object' = [constructed |-> TRUE, pool |-> TRUE, transactionalConnection |-> 0,
                  isTransactionConnection |-> FALSE]
    /\ driver' = [driver EXCEPT !.free = Conns]
    /\ UNCHANGED <<objectCalls, notObj>>

\* a constructor that makes the pool in both branches
ConstructWithConnectionAndPool ==
    /\ ~object.constructed
    /\ object' = [constructed |-> TRUE, pool |-> TRUE,
                  transactionalConnection |-> Wrapped,
                  isTransactionConnection |-> TRUE]
    /\ driver' = [driver EXCEPT !.held = {Wrapped}, !.free = Conns]
    /\ UNCHANGED <<objectCalls, notObj>>

\* new Connection(connection): 'execute' is in a PoolConnection
ConstructWithConnection ==
    /\ ~object.constructed
    /\ object' = [constructed |-> TRUE, pool |-> FALSE,
                  transactionalConnection |-> Wrapped,
                  isTransactionConnection |-> TRUE]
    /\ driver' = [driver EXCEPT !.held = {Wrapped}]
    /\ UNCHANGED <<objectCalls, notObj>>

\* a caller may start a call
MayCall(c) ==
    /\ object.constructed
    /\ objectCalls[c].at = "idle"
    /\ driver.made < MaxCalls

\* the call record of a call that starts now
Started(op, at) ==
    [NoObjectCall EXCEPT !.op = op, !.at = at, !.before = object]

\* a release that does not look at the mode of the object
ReleasesWhateverItIsGiven(obj, connection) == connection # 0

\* releaseConnection: !this._isTransactionConnection && connection
Releases(obj, connection) == ~obj.isTransactionConnection /\ connection # 0

\* the driver after releaseConnection(connection) on the object
AfterRelease(drv, connection) ==
    IF Releases(object, connection)
    THEN [drv EXCEPT !.releaseCalls[connection] = @ + 1,
                     !.free = IF connection \in Conns THEN @ \cup {connection} ELSE @,
                     !.held = @ \ {connection}]
    ELSE drv

\* a beginTransaction that does not look at the mode of the object
RefusesNothing(obj) == FALSE

\* beginTransaction: if (this._isTransactionConnection) throw
RefusesToBegin(obj) == obj.isTransactionConnection

\* query(sql, params) is called: it awaits getActiveConnection()
ObjectQuery(c) ==
    /\ MayCall(c)
    /\ objectCalls' = [objectCalls EXCEPT ![c] = Started("query", "getActiveConnection")]
    /\ driver' = [driver EXCEPT !.made = @ + 1]
    /\ UNCHANGED <<object, notObj>>

\* beginTransaction() is called and goes on to getActiveConnection()
ObjectBeginTransaction(c) ==
    /\ MayCall(c)
    /\ ~RefusesToBegin(object)
    /\ objectCalls' = [objectCalls EXCEPT
                          ![c] = Started("beginTransaction", "getActiveConnection")]
    /\ driver' = [driver EXCEPT !.made = @ + 1]
    /\ UNCHANGED <<object, notObj>>

\* beginTransaction() is called and throws at once
BeginTransactionRefused(c) ==
    /\ MayCall(c)
    /\ RefusesToBegin(object)
    /\ objectCalls' = [objectCalls EXCEPT
                          ![c] = [Started("beginTransaction", "done") EXCEPT
                                     !.result = "error"]]
    /\ driver' = [driver EXCEPT !.made = @ + 1]
    /\ UNCHANGED <<object, notObj>>

\* where a call goes once it has its connection
AfterGetActiveConnection(c) ==
    IF objectCalls[c].op = "query" THEN "execute" ELSE "begin"

\* getActiveConnection: the transactional connection is returned
ReturnTransactional(c) ==
    /\ objectCalls[c].at = "getActiveConnection"
    /\ object.isTransactionConnection /\ object.transactionalConnection # 0
    /\ objectCalls' = [objectCalls EXCEPT
                          ![c].connection = object.transactionalConnection,
                          ![c].at = AfterGetActiveConnection(c)]
    /\ UNCHANGED <<object, driver, notObj>>

\* getActiveConnection: pool.getConnection() resolves with an idle connection
PoolGetConnection(c) ==
    /\ objectCalls[c].at = "getActiveConnection"
    /\ ~(object.isTransactionConnection /\ object.transactionalConnection # 0)
    /\ object.pool
    /\ \E k \in driver.free :
          /\ driver' = [driver EXCEPT !.free = @ \ {k}, !.getConnectionCalls = @ + 1]
          /\ objectCalls' = [objectCalls EXCEPT ![c].connection = k,
                                                ![c].at = AfterGetActiveConnection(c)]
    /\ UNCHANGED <<object, notObj>>

\* getActiveConnection: pool.getConnection() rejects; the local connection
\* of query stays undefined and its finally releases nothing
PoolGetConnectionFails(c) ==
    /\ objectCalls[c].at = "getActiveConnection"
    /\ ~(object.isTransactionConnection /\ object.transactionalConnection # 0)
    /\ object.pool
    /\ driver' = [driver EXCEPT !.getConnectionCalls = @ + 1]
    /\ objectCalls' = [objectCalls EXCEPT ![c].at = "done", ![c].result = "error"]
    /\ UNCHANGED <<object, notObj>>

\* getActiveConnection: neither a transactional connection nor a pool
NoActiveConnection(c) ==
    /\ objectCalls[c].at = "getActiveConnection"
    /\ ~(object.isTransactionConnection /\ object.transactionalConnection # 0)
    /\ ~object.pool
    /\ objectCalls' = [objectCalls EXCEPT ![c].at = "done", ![c].result = "error"]
    /\ UNCHANGED <<object, driver, notObj>>

\* the driver after the finally of query
AfterQuery(c) ==
    LET ran == [driver EXCEPT !.executedOn = @ \cup {objectCalls[c].connection}]
    IN  IF ~object.isTransactionConnection
        THEN AfterRelease(ran, objectCalls[c].connection)
        ELSE ran

\* query: connection.execute(sql, params) resolves
ObjectExecute(c) ==
    /\ objectCalls[c].at = "execute"
    /\ driver' = AfterQuery(c)
    /\ objectCalls' = [objectCalls EXCEPT ![c].at = "done", ![c].result = "rows"]
    /\ UNCHANGED <<object, notObj>>

\* query: connection.execute(sql, params) rejects
ObjectExecuteFails(c) ==
    /\ objectCalls[c].at = "execute"
    /\ driver' = AfterQuery(c)
    /\ objectCalls' = [objectCalls EXCEPT ![c].at = "done", ![c].result = "error"]
    /\ UNCHANGED <<object, notObj>>

\* beginTransaction: connection.beginTransaction() resolves and the
\* connection is returned to the caller
ObjectBegin(c) ==
    /\ objectCalls[c].at = "begin"
    /\ driver' = [driver EXCEPT !.begunOn = @ \cup {objectCalls[c].connection},
                                !.held = @ \cup {objectCalls[c].connection}]
    /\ objectCalls' = [objectCalls EXCEPT ![c].at = "done", ![c].result = "handle"]
    /\ UNCHANGED <<object, notObj>>

\* beginTransaction: connection.beginTransaction() rejects
ObjectBeginFails(c) ==
    /\ objectCalls[c].at = "begin"
    /\ driver' = [driver EXCEPT !.begunOn = @ \cup {objectCalls[c].connection}]
    /\ objectCalls' = [objectCalls EXCEPT ![c].at = "done", ![c].result = "error"]
    /\ UNCHANGED <<object, notObj>>

\* releaseConnection(connection), with a connection the caller holds or
\* with undefined
ObjectReleaseConnection(c) ==
    /\ MayCall(c)
    /\ \E k \in driver.held \cup {0} :
          /\ driver' = [AfterRelease(driver, k) EXCEPT !.made = @ + 1]
          /\ objectCalls' = [objectCalls EXCEPT
                                ![c] = [Started("releaseConnection", "done") EXCEPT
                                           !.given = k, !.result = "undefined"]]
    /\ UNCHANGED <<object, notObj>>

\* end() finds a pool and awaits pool.end()
EndWithPool(c) ==
    /\ MayCall(c)
    /\ object.pool
    /\ driver' = [driver EXCEPT !.poolEndCalls = @ + 1, !.made = @ + 1]
    /\ objectCalls' = [objectCalls EXCEPT ![c] = Started("end", "poolEnd")]
    /\ UNCHANGED <<object, notObj>>

\* end() finds no pool and returns
EndWithoutPool(c) ==
    /\ MayCall(c)
    /\ ~object.pool
    /\ driver' = [driver EXCEPT !.made = @ + 1]
    /\ objectCalls' = [objectCalls EXCEPT
                          ![c] = [Started("end", "done") EXCEPT !.result = "undefined"]]
    /\ UNCHANGED <<object, notObj>>

\* end: pool.end() resolves and this.pool = null
PoolEndResolves(c) ==
    /\ objectCalls[c].at = "poolEnd"
    /\ object' = [object EXCEPT !.pool = FALSE]
    /\ objectCalls' = [objectCalls EXCEPT ![c].at = "done", ![c].result = "undefined"]
    /\ UNCHANGED <<driver, notObj>>

\* end: pool.end() rejects and this.pool stays
PoolEndRejects(c) ==
    /\ objectCalls[c].at = "poolEnd"
    /\ objectCalls' = [objectCalls EXCEPT ![c].at = "done", ![c].result = "error"]
    /\ UNCHANGED <<object, driver, notObj>>

\* the caller has the outcome of its call
ObjectReturn(c) ==
    /\ objectCalls[c].at = "done"
    /\ objectCalls' = [objectCalls EXCEPT ![c] = NoObjectCall]
    /\ UNCHANGED <<object, driver, notObj>>

(***************************************************************************)
(* Model: findById, create, update and delete of one model of table users, *)
(* its hooks, and the server that executes their statements.               *)
(***************************************************************************)
Ids == 1..MaxRows

\* the columns of table users besides id
Columns == {"name", "age"}

\* the data a record is created from: its keys in order, with their values
DataArgs == {<<[key |-> "name", value |-> Str("ann")]>>,
             <<[key |-> "age", value |-> Num(30)], [key |-> "name", value |-> Str("bob")]>>}

\* the partial data update is called with
PartialArgs == {<<[key |-> "age", value |-> Num(31)], [key |-> "name", value |-> Str("cy")]>>}

\* the ids findById, update and delete are called with: those a row can
\* have, and one none has
IdArgs == 0..MaxRows

Keys(data) == [i \in 1..Len(data) |-> data[i].key]
Values(data) == [i \in 1..Len(data) |-> data[i].value]

\* data[key], undefined when data has no such key
Get(data, key) ==
    IF \E i \in 1..Len(data) : data[i].key = key
    THEN data[CHOOSE i \in 1..Len(data) : data[i].key = key].value
    ELSE Undefined

Failure == [t |-> "error", v |-> 0]

\* an object as a value
Obj(o) == [t |-> "object", v |-> o]

\* a row of the table: a column no value was given for holds NULL
Row(id, data) ==
    [id |-> id,
     data |-> [c \in Columns |-> IF Get(data, c) = Undefined THEN Null ELSE Get(data, c)]]

\* { ...data }: an object with the keys of data, and no id yet (0)
Spread(data) == [id |-> 0, data |-> [c \in Columns |-> Get(data, c)]]

\* { ...existingInstance, ...data }
Merge(existing, data) ==
    [id |-> existing.id,
     data |-> [c \in Columns |-> IF Get(data, c) = Undefined THEN existing.data[c]
                                 ELSE Get(data, c)]]

\* the text of the one SELECT the server is asked to run here that parses:
\* after `=` it needs an operand, and LIMIT is a reserved word
SelectById(table) == <<"SELECT ", "*", " FROM ", table, " WHERE ", "id", " ", "=", " ", "?", " LIMIT ", "?">>

\* the INSERT of create, for data with these keys
InsertInto(table, keys) ==
    <<"INSERT INTO ", table, " (">> \o JoinStrings(keys, ", ") \o <<") VALUES (">>
        \o Join([i \in 1..Len(keys) |-> <<"?">>], ", ") \o <<")">>

\* the UPDATE of update, for partial data with these keys
UpdateSet(table, keys) ==
    <<"UPDATE ", table, " SET ">>
        \o Join([i \in 1..Len(keys) |-> <<keys[i], " = ", "?">>], ", ")
        \o <<" WHERE id = ", "?">>

\* the DELETE of delete
DeleteById(table) == <<"DELETE FROM ", table, " WHERE id = ", "?">>

\* connection.execute(sql, params) of a SELECT on the server: the rows whose
\* id is the first parameter, at most as many as the second one says; any
\* other text here does not parse, and a parameter list of another length
\* than the number of placeholders is refused
executeSelect(sql, params, rows) ==
    IF Text(sql) = Text(SelectById("users")) /\ Len(params) = CountPlaceholders(sql)
    THEN LET matching == SelectSeq(rows, LAMBDA row : Num(row.id) = params[1])
         IN  [ok |-> TRUE,
              rows |-> IF params[2].t = "number" /\ params[2].v < Len(matching)
                       THEN SubSeq(matching, 1, params[2].v)
                       ELSE matching]
    ELSE [ok |-> FALSE, rows |-> <<>>]

\* the column lists a statement on table users can name
KeySeqs == {<<"name">>, <<"age">>, <<"name", "age">>, <<"age", "name">>}

\* the i-th column of the statement takes the i-th parameter
Zip(keys, params) == [i \in 1..Len(keys) |-> [key |-> keys[i], value |-> params[i]]]

\* connection.execute(sql, params) of an INSERT, UPDATE or DELETE on the
\* server: the statement is read from its text, the values from params in
\* placeholder order; the result header has affectedRows and insertId
executeWrite(sql, params, rows, nextId) ==
    LET isInsert(keys) == Text(sql) = Text(InsertInto("users", keys))
        isUpdate(keys) == Text(sql) = Text(UpdateSet("users", keys))
        refused == [ok |-> FALSE, affectedRows |-> 0, insertId |-> 0, rows |-> rows]
    IN  IF Len(params) # CountPlaceholders(sql) THEN refused
        ELSE IF \E keys \in KeySeqs : isInsert(keys)
        THEN LET keys == CHOOSE keys \in KeySeqs : isInsert(keys)
             IN  [ok |-> TRUE, affectedRows |-> 1, insertId |-> nextId,
                  rows |-> Append(rows, Row(nextId, Zip(keys, params)))]
        ELSE IF \E keys \in KeySeqs : isUpdate(keys)
        THEN LET keys == CHOOSE keys \in KeySeqs : isUpdate(keys)
                 hit(row) == Num(row.id) = params[Len(params)]
             IN  [ok |-> TRUE,
                  affectedRows |-> Cardinality({i \in 1..Len(rows) : hit(rows[i])}),
                  insertId |-> 0,
                  rows |-> [i \in 1..Len(rows) |->
                               IF hit(rows[i])
                               THEN [id |-> rows[i].id,
                                     data |-> Merge(rows[i], Zip(keys, params)).data]
                               ELSE rows[i]]]
        ELSE IF Text(sql) = Text(DeleteById("users"))
        THEN [ok |-> TRUE,
              affectedRows |-> Cardinality({i \in 1..Len(rows) : Num(rows[i].id) = params[1]}),
              insertId |-> 0,
              rows |-> SelectSeq(rows, LAMBDA row : Num(row.id) # params[1])]
        ELSE refused

\* the events hooks are registered for
HookEvents == {"beforeCreate", "afterCreate", "beforeUpdate", "afterUpdate",
               "beforeDelete", "afterDelete"}

\* what a hook does with the instance it is given: it sets a field of it and
\* resolves, or it rejects
HookKinds == {"set", "throw"}

\* the number of hooks registered
RECURSIVE SumLen(_, _)
SumLen(f, S) ==
    IF S = {} THEN 0
    ELSE LET x == CHOOSE x \in S : TRUE IN Len(f[x]) + SumLen(f, S \ {x})

\* a hook that sets a field: instance.name = 'hooked'
HookSets(instance) == [instance EXCEPT !.data["name"] = Str("hooked")]

\* no call of the model in progress; stage says what the call is waiting
\* for, instance is the record handed to the hooks
NoModelCall ==
    [method |-> "none", at |-> "idle", stage |-> "none", id |-> 0, data |-> <<>>,
     instance |-> Spread(<<>>), event |-> "none", hookIndex |-> 0,
     sql |-> <<>>, params |-> <<>>, result |-> Undefined]

NothingCreated == [id |-> 0, data |-> <<>>]

InitTable ==
    /\ users = <<>>
    /\ autoIncrement = 1
    /\ hooks = [event \in HookEvents |-> <<>>]
    /\ modelCall = NoModelCall
    /\ modelLog = <<>>
    /\ lastCreated = NothingCreated

\* an entry of modelLog: a hook invoked (its event and the hook), or a
\* statement handed to connection.query
HookEntry(op, event, hook) == [op |-> op, event |-> event, hook |-> hook, sql |-> "", params |-> <<>>]
StatementEntry(sql, params) ==
    [op |-> "statement", event |-> "none", hook |-> 0, sql |-> Text(sql), params |-> params]

\* a registration that puts the hook in front of the earlier ones
unshiftHook(list, hook) == <<hook>> \o list

\* addHook(type, hook): the hook is pushed on the list of its event; hooks
\* are numbered as they are registered
pushHook(list, hook) == Append(list, hook)

AddHook ==
    /\ modelCall.at = "idle"
    /\ SumLen(hooks, HookEvents) < MaxHooks
    /\ \E event \in HookEvents, does \in HookKinds :
          hooks' = [hooks EXCEPT ![event] =
                       pushHook(@, [id |-> SumLen(hooks, HookEvents) + 1, does |-> does])]
    /\ UNCHANGED <<users, autoIncrement, modelCall, modelLog, lastCreated, notModel>>

\* findById(id): this.query().where('id', '=', id).first(), and first() is
\* limit(1) then get(): buildSql, then connection.query(sql, params)
findByIdQuery(tableName, id) ==
    buildSql(limit(whereString(NewQueryBuilder(tableName), "id", Str("="), Num(id)), Num(1)))

\* a call that starts with findById(id), findById itself, update and
\* delete, waits for that query
AwaitFindById(called, id, data) ==
    LET compiled == findByIdQuery("users", id)
    IN  [NoModelCall EXCEPT !.method = called, !.at = "query", !.stage = "find",
                            !.id = id, !.data = data,
                            !.sql = compiled.sql, !.params = compiled.params]

CallFindById ==
    /\ modelCall.at = "idle"
    /\ \E id \in IdArgs : modelCall' = AwaitFindById("findById", id, <<>>)
    /\ modelLog' = <<StatementEntry(modelCall'.sql, modelCall'.params)>>
    /\ UNCHANGED <<users, autoIncrement, hooks, lastCreated, notModel>>

\* update(id, data): await this.findById(id)
CallUpdate ==
    /\ modelCall.at = "idle"
    /\ \E id \in IdArgs, data \in PartialArgs :
          modelCall' = AwaitFindById("update", id, data)
    /\ modelLog' = <<StatementEntry(modelCall'.sql, modelCall'.params)>>
    /\ UNCHANGED <<users, autoIncrement, hooks, lastCreated, notModel>>

\* delete(id): await this.findById(id)
CallDelete ==
    /\ modelCall.at = "idle"
    /\ \E id \in IdArgs : modelCall' = AwaitFindById("delete", id, <<>>)
    /\ modelLog' = <<StatementEntry(modelCall'.sql, modelCall'.params)>>
    /\ UNCHANGED <<users, autoIncrement, hooks, lastCreated, notModel>>

\* runHooks(type, instance) is called: the call waits for its hooks
RunHooks(call, event, instance) ==
    [call EXCEPT !.at = "hooks", !.event = event, !.hookIndex = 1, !.instance = instance]

\* the call settles with result
Settled(call, result) == [call EXCEPT !.at = "done", !.result = result]

\* connection.query settles for findById: get() rejects with the server's
\* error, or first() returns results[0] || null; update and delete return
\* false when there is no such record, and else run their before hooks
FindByIdSettles ==
    /\ modelCall.at = "query" /\ modelCall.stage = "find"
    /\ LET results == executeSelect(modelCall.sql, modelCall.params, users)
           found == IF Len(results.rows) > 0 THEN Obj(results.rows[1]) ELSE Null
       IN  modelCall' =
              IF ~results.ok THEN Settled(modelCall, Failure)
              ELSE IF modelCall.method = "findById" THEN Settled(modelCall, found)
              ELSE IF found = Null THEN Settled(modelCall, Bool(FALSE))
              ELSE IF modelCall.method = "update"
              THEN RunHooks(modelCall, "beforeUpdate", Merge(found.v, modelCall.data))
              ELSE RunHooks(modelCall, "beforeDelete", found.v)
    /\ UNCHANGED <<users, autoIncrement, hooks, modelLog, lastCreated, notModel>>

\* create(data): newInstance = { ...data }, then the beforeCreate hooks
CallCreate ==
    /\ modelCall.at = "idle"
    /\ autoIncrement <= MaxRows
    /\ \E data \in DataArgs :
          modelCall' = RunHooks([NoModelCall EXCEPT !.method = "create", !.data = data],
                                "beforeCreate", Spread(data))
    /\ modelLog' = <<>>
    /\ UNCHANGED <<users, autoIncrement, hooks, lastCreated, notModel>>

\* the hook runHooks is waiting for
CurrentHook == hooks[modelCall.event][modelCall.hookIndex]

AtHook ==
    /\ modelCall.at = "hooks"
    /\ modelCall.hookIndex <= Len(hooks[modelCall.event])

\* await hook(instance, connection) resolves: on to the next hook
HookRuns ==
    /\ AtHook /\ CurrentHook.does = "set"
    /\ modelCall' = [modelCall EXCEPT !.instance = HookSets(@), !.hookIndex = @ + 1]
    /\ modelLog' = Append(modelLog, HookEntry("hook", modelCall.event, CurrentHook.id))
    /\ UNCHANGED <<users, autoIncrement, hooks, lastCreated, notModel>>

\* a runHooks that reports a rejecting hook and goes on with the next one
HookFailsAndGoesOn ==
    /\ AtHook /\ CurrentHook.does = "throw"
    /\ modelCall' = [modelCall EXCEPT !.hookIndex = @ + 1]
    /\ modelLog' = Append(modelLog, HookEntry("hookFailed", modelCall.event, CurrentHook.id))
    /\ UNCHANGED <<users, autoIncrement, hooks, lastCreated, notModel>>

\* await hook(instance, connection) rejects: the rejection leaves runHooks
\* and the method that called it
HookFails ==
    /\ AtHook /\ CurrentHook.does = "throw"
    /\ modelCall' = Settled(modelCall, Failure)
    /\ modelLog' = Append(modelLog, HookEntry("hookFailed", modelCall.event, CurrentHook.id))
    /\ UNCHANGED <<users, autoIncrement, hooks, lastCreated, notModel>>

\* a create, update or delete that writes its statement from the instance
\* its before hooks were handed
WriteStatementFromInstance(call) ==
    LET draft == Zip(Keys(call.data), [i \in 1..Len(call.data) |->
                                          call.instance.data[call.data[i].key]])
    IN  IF call.method = "create"
        THEN [sql |-> InsertInto("users", Keys(draft)), params |-> Values(draft)]
        ELSE IF call.method = "update"
        THEN [sql |-> UpdateSet("users", Keys(draft)),
              params |-> Values(draft) \o <<Num(call.instance.id)>>]
        ELSE [sql |-> DeleteById("users"), params |-> <<Num(call.instance.id)>>]

\* the statement create, update or delete writes once its before hooks
\* have run: from data and id, not from the instance
WriteStatement(call) ==
    IF call.method = "create"
    THEN [sql |-> InsertInto("users", Keys(call.data)), params |-> Values(call.data)]
    ELSE IF call.method = "update"
    THEN [sql |-> UpdateSet("users", Keys(call.data)),
          params |-> Values(call.data) \o <<Num(call.id)>>]
    ELSE [sql |-> DeleteById("users"), params |-> <<Num(call.id)>>]

\* runHooks returns, every hook of the event having resolved: after the
\* before hooks the statement is handed to connection.query, after the
\* after hooks the method returns
RunHooksReturns ==
    /\ modelCall.at = "hooks"
    /\ modelCall.hookIndex > Len(hooks[modelCall.event])
    /\ IF modelCall.event \in {"beforeCreate", "beforeUpdate", "beforeDelete"}
       THEN LET statement == WriteStatement(modelCall)
            IN  /\ modelCall' = [modelCall EXCEPT !.at = "query", !.stage = "write",
                                                  !.sql = statement.sql,
                                                  !.params = statement.params]
                /\ modelLog' = Append(modelLog, StatementEntry(statement.sql, statement.params))
       ELSE /\ modelCall' = Settled(modelCall,
                                    IF modelCall.method = "create"
                                    THEN Obj(modelCall.instance) ELSE Bool(TRUE))
            /\ UNCHANGED modelLog
    /\ lastCreated' = IF modelCall.method = "create" /\ modelCall.event = "afterCreate"
                      THEN [id |-> modelCall.instance.id, data |-> modelCall.data]
                      ELSE lastCreated
    /\ UNCHANGED <<users, autoIncrement, hooks, notModel>>

\* connection.query settles for the INSERT, UPDATE or DELETE: create assigns
\* result.insertId to the instance and runs the afterCreate hooks; update
\* and delete run their after hooks when affectedRows > 0 and else return
\* false
WriteSettles ==
    /\ modelCall.at = "query" /\ modelCall.stage = "write"
    /\ LET result == executeWrite(modelCall.sql, modelCall.params, users, autoIncrement)
       IN  /\ users' = result.rows
           /\ autoIncrement' = IF result.insertId # 0 THEN autoIncrement + 1 ELSE autoIncrement
           /\ modelCall' =
                 IF ~result.ok THEN Settled(modelCall, Failure)
                 ELSE IF modelCall.method = "create"
                 THEN RunHooks([modelCall EXCEPT !.id = result.insertId], "afterCreate",
                               [modelCall.instance EXCEPT !.id = result.insertId])
                 ELSE IF result.affectedRows > 0
                 THEN RunHooks(modelCall,
                               IF modelCall.method = "update" THEN "afterUpdate"
                               ELSE "afterDelete",
                               modelCall.instance)
                 ELSE Settled(modelCall, Bool(FALSE))
           /\ lastCreated' = IF result.ok /\ modelCall.method # "create"
                             THEN NothingCreated ELSE lastCreated
    /\ UNCHANGED <<hooks, modelLog, notModel>>

\* the caller has the outcome of its call
ReturnModelCall ==
    /\ modelCall.at = "done"
    /\ modelCall' = NoModelCall
    /\ modelLog' = <<>>
    /\ UNCHANGED <<users, autoIncrement, hooks, lastCreated, notModel>>

(***************************************************************************)
(* The specifications: one per part, each from the state after             *)
(* construction.                                                           *)
(***************************************************************************)
Init ==
    /\ InitBuilder /\ InitRunner /\ InitPool /\ InitTable /\ InitObject
    /\ InitRunners

NextQB ==
    \/ Where \/ OrWhere
    \/ WhereIn \/ OrWhereIn \/ WhereNotIn \/ OrWhereNotIn
    \/ WhereNull \/ OrWhereNull \/ WhereNotNull \/ OrWhereNotNull
    \/ WhereBetween \/ OrWhereBetween \/ WhereNotBetween \/ OrWhereNotBetween
    \/ WhereRaw \/ OrWhereRaw
    \/ WhereCallbackCall \/ OrWhereCallbackCall \/ CallbackReturn

SpecQB == Init /\ [][NextQB]_vars

\* a caller that uses where and orWhere in both forms and the raw variants:
\* the three kinds of node, nested at will
NextGroups ==
    \/ Where \/ OrWhere
    \/ WhereRaw \/ OrWhereRaw
    \/ WhereCallbackCall \/ OrWhereCallbackCall \/ CallbackReturn

SpecGroups == Init /\ [][NextGroups]_vars

\* a caller that uses the list, range and null variants
NextOperators ==
    \/ WhereIn \/ OrWhereIn \/ WhereNotIn \/ OrWhereNotIn
    \/ WhereNull \/ OrWhereNull \/ WhereNotNull \/ OrWhereNotNull
    \/ WhereBetween \/ OrWhereBetween \/ WhereNotBetween \/ OrWhereNotBetween

SpecOperators == Init /\ [][NextOperators]_vars

\* a caller that joins, filters with whereIn and whereBetween, and gives
\* having conditions, a limit and an offset
NextPlan ==
    \/ InnerJoin \/ LeftJoin \/ RightJoin
    \/ WhereIn \/ WhereBetween
    \/ Having \/ Limit \/ Offset
    \/ BuildSql

SpecPlan == Init /\ [][NextPlan]_vars

\* a caller that joins tables on conditions built by callbacks
NextJoins == JoinWithCallback \/ Limit \/ BuildSql

SpecJoins == Init /\ [][NextJoins]_vars

\* a caller that sets the select list, limit and offset and runs terminal
\* operations on the same builder
NextTerminal ==
    \/ Select \/ Limit \/ Offset
    \/ Count \/ Sum \/ Avg \/ First \/ CallGet

SpecTerminal == Init /\ [][NextTerminal]_vars

NextMig ==
    \/ CallMigrateUp \/ CallMigrateDown
    \/ EnsureMigrationsTable \/ EnsureMigrationsTableFails
    \/ LoadMigrations \/ LoadMigrationsFails
    \/ GetRanMigrations \/ GetRanMigrationsFails
    \/ RunUp \/ RunUpFails \/ InsertRow \/ InsertRowFails
    \/ SkipRollback \/ RunDown \/ RunDownFails \/ DeleteRow \/ DeleteRowFails
    \/ LoopEnds \/ Return
    \/ AddFile \/ RemoveFile

SpecMig == Init /\ [][NextMig]_vars

\* two processes, each running migrateUp once
NextRunners ==
    \/ PutFile
    \/ \E r \in Runners :
          \/ StartMigrateUp(r) \/ RunnerEnsures(r) \/ RunnerLoads(r)
          \/ RunnerGetsRan(r) \/ RunnerAwaitFails(r)
          \/ RunnerUp(r) \/ RunnerUpFails(r)
          \/ RunnerInserts(r) \/ RunnerInsertFails(r)
          \/ RunnerLoopEnds(r)

SpecRunners == Init /\ [][NextRunners]_vars

NextConn ==
    \/ \E c \in Callers :
          \/ CallQuery(c) \/ CallBeginTransaction(c) \/ CallTransaction(c)
          \/ GetConnection(c) \/ GetConnectionFails(c)
          \/ Execute(c) \/ ExecuteFails(c)
          \/ Begin(c) \/ BeginFails(c)
          \/ CallbackQuery(c) \/ CallbackReturns(c) \/ CallbackThrows(c)
          \/ Commit(c) \/ CommitFails(c)
          \/ Rollback(c) \/ RollbackFails(c)
          \/ ReturnCall(c)
    \/ ReleaseConnection

SpecConn == Init /\ [][NextConn]_vars

\* callers that only run queries on the pool-backed Connection
NextQueries ==
    \E c \in Callers :
        \/ CallQuery(c)
        \/ GetConnection(c) \/ GetConnectionFails(c)
        \/ Execute(c) \/ ExecuteFails(c)
        \/ ReturnCall(c)

SpecQueries == Init /\ [][NextQueries]_vars

\* one Connection object, made in either way, and the calls of its callers
NextObject ==
    \/ ConstructWithConfig \/ ConstructWithConnection
    \/ \E c \in Callers :
          \/ ObjectQuery(c) \/ ObjectBeginTransaction(c) \/ BeginTransactionRefused(c)
          \/ ReturnTransactional(c) \/ PoolGetConnection(c)
          \/ PoolGetConnectionFails(c) \/ NoActiveConnection(c)
          \/ ObjectExecute(c) \/ ObjectExecuteFails(c)
          \/ ObjectBegin(c) \/ ObjectBeginFails(c)
          \/ ObjectReleaseConnection(c)
          \/ EndWithPool(c) \/ EndWithoutPool(c)
          \/ PoolEndResolves(c) \/ PoolEndRejects(c)
          \/ ObjectReturn(c)

SpecObject == Init /\ [][NextObject]_vars

NextModel ==
    \/ AddHook
    \/ CallFindById \/ CallCreate \/ CallUpdate \/ CallDelete
    \/ FindByIdSettles
    \/ HookRuns \/ HookFails \/ RunHooksReturns
    \/ WriteSettles
    \/ ReturnModelCall

SpecModel == Init /\ [][NextModel]_vars

(***************************************************************************)
(* Claims about the query builder.                                         *)
(***************************************************************************)
RECURSIVE Literal(_)
\* a value written out as a literal
Literal(v) ==
    CASE v.t = "number" -> ToString(v.v)
      [] v.t = "string" -> "'" \o v.v \o "'"
      [] v.t = "boolean" -> (IF v.v THEN "true" ELSE "false")
      [] v.t = "null" -> "NULL"
      [] v.t = "undefined" -> "undefined"
      [] v.t = "array" ->
            "[" \o Text(Join([i \in 1..Len(v.v) |-> <<Literal(v.v[i])>>], ", ")) \o "]"

RECURSIVE Bind(_, _)
\* positional binding, as the driver does it: the i-th placeholder from the
\* left takes the i-th parameter
Bind(frags, params) ==
    IF frags = <<>> THEN <<>>
    ELSE IF Head(frags) = "?"
    THEN <<Literal(Head(params))>> \o Bind(Tail(frags), Tail(params))
    ELSE <<Head(frags)>> \o Bind(Tail(frags), params)

RECURSIVE Meaning(_)
\* the predicate the caller wrote, every value in the place it was given for
Meaning(clauses) ==
    LET lits(vs) == [i \in 1..Len(vs) |-> <<Literal(vs[i])>>]
        part(i) ==
            LET clause == clauses[i]
                boolean == IF i = 1 THEN <<>> ELSE <<clause.boolean, " ">>
            IN  IF clause.type = "basic"
                THEN boolean \o <<clause.column, " ", clause.operator>> \o
                     (IF clause.operator \in {"IN", "NOT IN"}
                      THEN <<" (">> \o Join(lits(clause.value.v), ", ") \o <<")">>
                      ELSE IF clause.operator \in {"BETWEEN", "NOT BETWEEN"}
                      THEN <<" ", Literal(clause.value.v[1]), " AND ",
                             Literal(clause.value.v[2])>>
                      ELSE IF clause.operator \in {"IS NULL", "IS NOT NULL"}
                      THEN <<>>
                      ELSE <<" ", Literal(clause.value)>>)
                ELSE IF clause.type = "group"
                THEN boolean \o <<"(">> \o Meaning(clause.clauses) \o <<")">>
                ELSE boolean \o <<"(">> \o Bind(clause.sql, clause.params) \o <<")">>
    IN  Join([i \in 1..Len(clauses) |-> part(i)], " ")

\* every predicate sequence there is: the builder's and those of the nested
\* builders of the callbacks that are running
PredicateSequences ==
    {builder.whereClauses} \cup
    {callbacks[i].nestedBuilder.currentWhereGroup.clauses : i \in 1..Len(callbacks)}

\* C1: for every predicate sequence built with the where family, at any
\* nesting depth, the compiled WHERE text has as many placeholders as the
\* returned parameter list has entries, and binding the i-th placeholder to
\* the i-th parameter gives every value the place it was given for.
C1_PlaceholdersMatchParams ==
    \A clauses \in PredicateSequences :
        LET compiled == buildWhereClause(clauses)
        IN  /\ CountPlaceholders(compiled.sql) = Len(compiled.params)
            /\ Text(Bind(compiled.sql, compiled.params)) = Text(Meaning(clauses))

\* the chain where("age",">",18).orWhere("vip","=",true)
\*           .whereIn("status",["active","pending"]) on table users
ExampleChain ==
    whereIn(
        orWhereString(
            whereString(NewQueryBuilder("users"), "age", Str(">"), Num(18)),
            "vip", Str("="), Bool(TRUE)),
        "status", <<Str("active"), Str("pending")>>)

PlainOperator(clause) ==
    /\ clause.type = "basic"
    /\ clause.operator \notin {"IN", "NOT IN", "BETWEEN", "NOT BETWEEN",
                               "IS NULL", "IS NOT NULL"}

\* C2: a Basic node with a plain comparison operator renders as
\* `<column> <operator> ?` and contributes its value as one parameter; the
\* example chain compiles to
\* `SELECT * FROM users WHERE age > ? OR vip = ? AND status IN (?, ?)` with
\* params [18, true, "active", "pending"].
C2_BasicNodeAndExample ==
    /\ \A clauses \in PredicateSequences :
          (Len(clauses) > 0 /\ PlainOperator(clauses[1])) =>
              LET compiled == buildWhereClause(<<clauses[1]>>)
              IN  /\ Text(compiled.sql) =
                        clauses[1].column \o " " \o clauses[1].operator \o " ?"
                  /\ compiled.params = <<clauses[1].value>>
    /\ (builder = ExampleChain) =>
          /\ Text(buildSql(builder).sql) =
                "SELECT * FROM users WHERE age > ? OR vip = ? AND status IN (?, ?)"
          /\ buildSql(builder).params =
                <<Num(18), Bool(TRUE), Str("active"), Str("pending")>>

\* the example chain has been made
C2_ExampleChainMade == builder = ExampleChain

RECURSIVE SiblingSequences(_)
\* a predicate sequence and the sequences of the groups nested in it, at any
\* depth
SiblingSequences(clauses) ==
    {clauses} \cup
    UNION {IF clauses[i].type = "group"
           THEN SiblingSequences(clauses[i].clauses) ELSE {} :
           i \in 1..Len(clauses)}

\* the rendering of one sibling sequence
Rendered(clauses) == Text(buildWhereClause(clauses).sql)

\* the renderings of the nodes on their own, the first as it is and every
\* later one after its own boolean
FirstBareThenPrefixed(clauses) ==
    Text(Join([i \in 1..Len(clauses) |->
                  (IF i = 1 THEN <<>> ELSE <<clauses[i].boolean, " ">>) \o
                  <<Rendered(<<clauses[i]>>)>>], " "))

\* C16: in every sibling sequence of predicate nodes, at the top level and
\* inside every nested group, the first node is rendered with no leading
\* AND/OR whatever its boolean is and every later node is rendered after its
\* own boolean; a sequence made by where(...).orWhere(...) renders
\* `<first> OR <second>`.
C16_FirstNodeBareOthersPrefixed ==
    \A top \in PredicateSequences : \A clauses \in SiblingSequences(top) :
        /\ Rendered(clauses) = FirstBareThenPrefixed(clauses)
        /\ (Len(clauses) = 2 /\ clauses[1].boolean = "AND" /\ clauses[2].boolean = "OR") =>
              Rendered(clauses) =
                  Rendered(<<clauses[1]>>) \o " OR " \o Rendered(<<clauses[2]>>)

\* a group nested in the builder's sequence holds two nodes, the first made
\* by an orWhere and the second by a where
C16_NestedSequenceStartsWithOr ==
    \E i \in 1..Len(builder.whereClauses) :
        /\ builder.whereClauses[i].type = "group"
        /\ Len(builder.whereClauses[i].clauses) = 2
        /\ builder.whereClauses[i].clauses[1].boolean = "OR"
        /\ builder.whereClauses[i].clauses[2].boolean = "AND"

\* the predicate sequence calls on a builder append to
SequenceOf(qb) ==
    IF qb.currentWhereGroup.isNull THEN qb.whereClauses
    ELSE qb.currentWhereGroup.clauses

\* the call that returned last is where(callback) or orWhere(callback)
LastCallIsCallbackForm ==
    /\ lastCall.method \in {"where", "orWhere"}
    /\ Len(lastCall.args) = 2

\* C17: where(callback) and orWhere(callback) whose callback adds no
\* predicate to the nested builder append nothing: once the call has
\* returned, what the builder it was made on compiles to, SQL and parameter
\* list, is what it compiled to before the call, at any nesting depth.
C17_EmptyCallbackAppendsNothing ==
    (LastCallIsCallbackForm /\ lastCall.args[2] = <<>>) =>
        /\ buildSql(Callee) = buildSql(lastCall.before)
        /\ buildWhereClause(SequenceOf(Callee)) =
              buildWhereClause(SequenceOf(lastCall.before))

\* an orWhere(callback) whose callback added nothing has returned inside a
\* callback that is still running, after a predicate was given there
C17_EmptyCallbackReturnedInsideCallback ==
    /\ LastCallIsCallbackForm /\ lastCall.args[2] = <<>>
    /\ lastCall.method = "orWhere"
    /\ lastCall.depth > 0
    /\ SequenceOf(Callee) # <<>>

\* the Basic nodes of a predicate sequence, nested ones included
BasicNodes(top) ==
    {clause \in UNION {{clauses[i] : i \in 1..Len(clauses)} :
                          clauses \in SiblingSequences(top)} :
        clause.type = "basic"}

RECURSIVE QuestionMarks(_)
\* the text `?, ?, ..., ?` of n placeholders
QuestionMarks(n) ==
    IF n = 0 THEN "" ELSE IF n = 1 THEN "?" ELSE QuestionMarks(n - 1) \o ", ?"

\* the call that returned last is one of the whereIn family
LastCallIsInForm ==
    lastCall.method \in {"whereIn", "orWhereIn", "whereNotIn", "orWhereNotIn"}

LastCallIsStringForm ==
    /\ lastCall.method \in {"where", "orWhere"}
    /\ Len(lastCall.args) = 3

\* C19: the string form where(column, operator, value) appends exactly one
\* Basic node with boolean AND (orWhere: boolean OR), holding the column,
\* operator and value given, to the current predicate sequence, for every
\* value passed, null, undefined and other falsy values included.
C19_StringFormAlwaysAppends ==
    LastCallIsStringForm =>
        SequenceOf(Callee) =
            Append(SequenceOf(lastCall.before),
                   [type |-> "basic",
                    boolean |-> (IF lastCall.method = "where" THEN "AND" ELSE "OR"),
                    column |-> lastCall.args[1],
                    operator |-> lastCall.args[2].v,
                    value |-> lastCall.args[3]])

\* where(column, operator, undefined) has returned
C19_WhereWithUndefinedReturned ==
    /\ LastCallIsStringForm
    /\ lastCall.method = "where"
    /\ lastCall.args[3] = Undefined

\* where a fragment stands in a statement
Positions(sql, frag) == {i \in 1..Len(sql) : sql[i] = frag}

\* the number of placeholders to the left of position i of a statement
PlaceholdersBefore(sql, i) == CountPlaceholders(SubSeq(sql, 1, i - 1))

LastCallIsStringJoin ==
    /\ lastCall.method \in {"innerJoin", "leftJoin", "rightJoin"}
    /\ lastCall.args[2].t = "string"

\* C22: innerJoin / leftJoin / rightJoin in the string form throw when the
\* operator or the second column is missing, and then no join is appended
\* and the rest of the plan is as it was; when all three are given, exactly
\* one join of the requested type is appended, with ON text
\* `<firstColumn> <operator> <secondColumn>` and no parameters.
C22_StringJoinNeedsAllThree ==
    LastCallIsStringJoin =>
        IF lastCall.args[3] = Undefined \/ lastCall.args[4] = Undefined
        THEN /\ lastCall.threw
             /\ builder = lastCall.before
        ELSE LET joins == builder.joinClauses
                 added == joins[Len(joins)]
             IN  /\ ~lastCall.threw
                 /\ Len(joins) = Len(lastCall.before.joinClauses) + 1
                 /\ builder = [lastCall.before EXCEPT !.joinClauses = Append(@, added)]
                 /\ added.type = (CASE lastCall.method = "innerJoin" -> "INNER"
                                    [] lastCall.method = "leftJoin" -> "LEFT"
                                    [] lastCall.method = "rightJoin" -> "RIGHT")
                 /\ added.table = lastCall.args[1]
                 /\ Text(added.on) =
                       lastCall.args[2].v \o " " \o lastCall.args[3].v \o " " \o
                       lastCall.args[4].v
                 /\ added.params = <<>>

\* leftJoin without its second column has thrown on a builder that had a
\* join and a predicate already
C22_LeftJoinWithoutSecondColumnThrew ==
    /\ LastCallIsStringJoin
    /\ lastCall.method = "leftJoin"
    /\ lastCall.args[3] # Undefined /\ lastCall.args[4] = Undefined
    /\ lastCall.threw
    /\ lastCall.before.joinClauses # <<>>
    /\ lastCall.before.whereClauses # <<>>

(***************************************************************************)
(* Claims about the Connection and the Model.                              *)
(***************************************************************************)
\* C3: every pool checkout made for a query, a beginTransaction or a
\* FastOrm.transaction is matched by exactly one release on every exit path:
\* once the call has finished or failed, the connection that was checked out
\* for it has been released once, unless it was returned to the caller as a
\* transaction handle; and no call releases more than once.
C3_EveryCheckoutReleased ==
    \A c \in Callers :
        /\ calls[c].released <= 1
        /\ (calls[c].at = "done" /\ calls[c].checkedOut # 0 /\ calls[c].result # "handle")
              => calls[c].released = 1

\* a call has failed after its checkout, at BEGIN
C3_BeginFailedAfterCheckout ==
    \E c \in Callers :
        /\ calls[c].at = "done" /\ calls[c].result = "error"
        /\ calls[c].op \in {"beginTransaction", "transaction"}
        /\ calls[c].checkedOut # 0

\* C10: findById(id) issues one SELECT whose text has the predicate
\* `WHERE id = ?` with id bound to that placeholder and a limit of one row,
\* and it returns the row with that id, or null, not an error, when there is
\* none.
C10_FindByIdSelectsById ==
    modelCall.method = "findById" =>
        /\ Text(modelCall.sql) = "SELECT * FROM users WHERE id = ? LIMIT ?"
        /\ modelCall.params = <<Num(modelCall.id), Num(1)>>
        /\ modelCall.at = "done" =>
              modelCall.result =
                  (IF \E i \in 1..Len(users) : users[i].id = modelCall.id
                   THEN Obj(users[CHOOSE i \in 1..Len(users) : users[i].id = modelCall.id])
                   ELSE Null)

\* findById has been called for the id of a row of the table, and has settled
C10_FindByIdOfARowSettled ==
    /\ modelCall.method = "findById" /\ modelCall.at = "done"
    /\ \E i \in 1..Len(users) : users[i].id = modelCall.id

\* C11: create(data) followed by findById of the id it returned yields a
\* record whose fields equal those of data and whose id is the insert id
\* create captured.
C11_CreateThenFindByIdRoundTrip ==
    (/\ modelCall.method = "findById" /\ modelCall.at = "done"
     /\ lastCreated.id # 0 /\ modelCall.id = lastCreated.id) =>
        /\ modelCall.result.t = "object"
        /\ modelCall.result.v.id = lastCreated.id
        /\ \A i \in 1..Len(lastCreated.data) :
              modelCall.result.v.data[lastCreated.data[i].key] = lastCreated.data[i].value

\* findById has settled for the id the create before it returned
C11_FoundAfterCreate ==
    /\ modelCall.method = "findById" /\ modelCall.at = "done"
    /\ lastCreated.id # 0 /\ modelCall.id = lastCreated.id

\* the hooks of one event that the call in progress has invoked, in order
HookEntries(event) ==
    SelectSeq(modelLog, LAMBDA entry : entry.op \in {"hook", "hookFailed"} /\ entry.event = event)

\* the row of table users with this id, if any
HasRow(id) == \E k \in 1..Len(users) : users[k].id = id
RowOf(id) == users[CHOOSE k \in 1..Len(users) : users[k].id = id]

\* C12: the hooks registered for one event are invoked strictly in
\* registration order, one after the other; when a hook fails, no later hook
\* runs, nothing more is done and the failure propagates to the caller; when
\* the failing hook is an after* hook, the INSERT, UPDATE or DELETE already
\* executed is not undone.
C12_HooksInRegistrationOrder ==
    /\ \A event \in HookEvents :
          LET invoked == HookEntries(event)
          IN  /\ Len(invoked) <= Len(hooks[event])
              /\ \A i \in 1..Len(invoked) : invoked[i].hook = hooks[event][i].id
              /\ \A i, j \in 1..Len(invoked) : i < j => invoked[i].hook < invoked[j].hook
    /\ \A i \in 1..Len(modelLog) :
          modelLog[i].op = "hookFailed" =>
              /\ i = Len(modelLog)
              /\ modelCall.at = "done" /\ modelCall.result = Failure
              /\ modelLog[i].event = "afterCreate" =>
                    HasRow(modelCall.id) /\ RowOf(modelCall.id) = Row(modelCall.id, modelCall.data)
              /\ modelLog[i].event = "afterUpdate" =>
                    /\ HasRow(modelCall.id)
                    /\ \A k \in 1..Len(modelCall.data) :
                          RowOf(modelCall.id).data[modelCall.data[k].key] =
                              modelCall.data[k].value
              /\ modelLog[i].event = "afterDelete" => ~HasRow(modelCall.id)

\* create has invoked its first afterCreate hook, and the second one has
\* failed
C12_SecondAfterCreateHookFailed ==
    LET invoked == HookEntries("afterCreate")
    IN  /\ modelCall.method = "create" /\ modelCall.at = "done"
        /\ Len(invoked) = 2 /\ invoked[1].op = "hook" /\ invoked[2].op = "hookFailed"

\* the positions of modelLog with a statement, and those with a hook
StatementAt == {i \in 1..Len(modelLog) : modelLog[i].op = "statement"}
HookAt(event) == {i \in 1..Len(modelLog) :
                     modelLog[i].op \in {"hook", "hookFailed"} /\ modelLog[i].event = event}

\* every hook of the event has been invoked and has resolved
AllHooksRan(event) ==
    /\ Len(HookEntries(event)) = Len(hooks[event])
    /\ \A i \in HookAt(event) : modelLog[i].op = "hook"

\* C13: create(data) runs the beforeCreate hooks, then issues one INSERT
\* whose column list is the keys of data and whose values are the values of
\* data in the same key order, whatever the beforeCreate hooks did to the
\* draft record, then assigns the insertId to the record's id, then runs the
\* afterCreate hooks, and returns that same record.
C13_CreateInsertsTheKeysOfData ==
    modelCall.method = "create" =>
        /\ Cardinality(StatementAt) <= 1
        /\ \A i \in StatementAt :
              /\ AllHooksRan("beforeCreate")
              /\ \A h \in HookAt("beforeCreate") : h < i
              /\ \A h \in HookAt("afterCreate") : i < h
              /\ modelLog[i].sql =
                    "INSERT INTO users (" \o Text(JoinStrings(Keys(modelCall.data), ", "))
                        \o ") VALUES (" \o Text(Placeholders(Len(modelCall.data))) \o ")"
              /\ modelLog[i].params = Values(modelCall.data)
        /\ HookAt("afterCreate") # {} =>
              /\ StatementAt # {}
              /\ modelCall.instance.id = autoIncrement - 1
              /\ HasRow(modelCall.instance.id)
        /\ (modelCall.at = "done" /\ modelCall.result # Failure) =>
              /\ StatementAt # {}
              /\ AllHooksRan("afterCreate")
              /\ modelCall.result = Obj(modelCall.instance)
              /\ modelCall.instance.id = autoIncrement - 1
              /\ HasRow(modelCall.instance.id)
              /\ RowOf(modelCall.instance.id) = Row(modelCall.instance.id, modelCall.data)
              /\ \A c \in Columns :
                    modelCall.instance.data[c] =
                        IF HookAt("beforeCreate") \cup HookAt("afterCreate") # {} /\ c = "name"
                        THEN Str("hooked") ELSE Get(modelCall.data, c)

\* create has returned its record after a beforeCreate hook changed the draft
C13_CreatedAfterHookChangedDraft ==
    /\ modelCall.method = "create" /\ modelCall.at = "done"
    /\ modelCall.result # Failure
    /\ HookAt("beforeCreate") # {}
    /\ Get(modelCall.data, "name") # Str("hooked")

\* a hook of the call in progress has failed
SomeHookFailed == \E i \in 1..Len(modelLog) : modelLog[i].op = "hookFailed"

\* the events of the hooks of update and of delete
BeforeEvent == IF modelCall.method = "update" THEN "beforeUpdate" ELSE "beforeDelete"
AfterEvent == IF modelCall.method = "update" THEN "afterUpdate" ELSE "afterDelete"

\* C14: update(id, data) and delete(id) are gated on existence and on
\* affected rows: when no record with id exists they return false, run no
\* hook and issue no UPDATE or DELETE; otherwise the after* hooks run if and
\* only if the statement reports an affected row, and true is returned
\* exactly in that case.
C14_UpdateAndDeleteAreGated ==
    (modelCall.method \in {"update", "delete"} /\ modelCall.at = "done") =>
        LET wrote == Cardinality(StatementAt) = 2
        IN  /\ (~wrote /\ ~HasRow(modelCall.id)) =>
                  /\ modelCall.result = Bool(FALSE)
                  /\ Cardinality(StatementAt) = 1
                  /\ HookAt(BeforeEvent) = {} /\ HookAt(AfterEvent) = {}
            /\ (~wrote /\ HasRow(modelCall.id)) => SomeHookFailed
            /\ modelCall.result = Failure => SomeHookFailed
            /\ wrote =>
                  /\ AllHooksRan(BeforeEvent)
                  /\ (modelCall.method = "delete") = ~HasRow(modelCall.id)
                  /\ (modelCall.result = Bool(TRUE)) = AllHooksRan(AfterEvent)
            /\ HookAt(AfterEvent) # {} => wrote
            /\ modelCall.result \in {Bool(TRUE), Bool(FALSE), Failure}

\* update has settled for an id no record has
C14_UpdateOfNoRecordSettled ==
    /\ modelCall.method = "update" /\ modelCall.at = "done"
    /\ ~HasRow(modelCall.id)

\* C15: update(id, partialData) on an existing record issues
\* `UPDATE <table> SET k1 = ?, ..., kn = ? WHERE id = ?`, one SET entry per
\* key of partialData, with the values of partialData in key order followed
\* by id as parameters, as many as there are placeholders; what the
\* beforeUpdate hooks did to the merged record does not alter the statement.
C15_UpdateStatement ==
    (/\ modelCall.method = "update" /\ modelCall.at = "done"
     /\ HasRow(modelCall.id)
     /\ \A h \in HookAt("beforeUpdate") : modelLog[h].op = "hook") =>
        LET keys == Keys(modelCall.data)
            set == Join([k \in 1..Len(keys) |-> <<keys[k] \o " = ?">>], ", ")
            updates == {i \in StatementAt :
                           modelLog[i].sql = "UPDATE users SET " \o Text(set) \o " WHERE id = ?"}
        IN  /\ Cardinality(updates) = 1
            /\ Cardinality(StatementAt) = 2
            /\ \A i \in updates :
                  /\ modelLog[i].params = Values(modelCall.data) \o <<Num(modelCall.id)>>
                  /\ Len(modelLog[i].params) = Len(keys) + 1
                  /\ \A h \in HookAt("beforeUpdate") : h < i

\* update has settled for the id of a record of the table
C15_UpdateOfARecordSettled ==
    /\ modelCall.method = "update" /\ modelCall.at = "done"
    /\ HasRow(modelCall.id)

\* C23: a transaction-bound Connection never checks a connection out of a
\* pool and never releases its handle: whatever query, releaseConnection
\* and end calls are made on it, every query executes on the one wrapped
\* connection and release is never called on that connection.
C23_TransactionBoundNeverReleases ==
    object.isTransactionConnection =>
        /\ driver.getConnectionCalls = 0
        /\ driver.poolEndCalls = 0
        /\ driver.executedOn \subseteq {Wrapped}
        /\ \A c \in Callers :
              objectCalls[c].at = "execute" => objectCalls[c].connection = Wrapped
        /\ \A k \in 1..Wrapped : driver.releaseCalls[k] = 0

\* on a transaction-bound Connection a query has executed, and
\* releaseConnection of the wrapped connection and end have returned
C23_QueriedReleasedAndEnded ==
    /\ object.isTransactionConnection
    /\ driver.executedOn = {Wrapped}
    /\ \E c, d \in Callers :
          /\ objectCalls[c].op = "releaseConnection" /\ objectCalls[c].at = "done"
          /\ objectCalls[c].given = Wrapped
          /\ objectCalls[d].op = "end" /\ objectCalls[d].at = "done"

\* C24 as stated: in every state after construction, whatever query,
\* beginTransaction, releaseConnection and end calls were made, the
\* Connection either owns a pool or wraps a connection, never both and
\* never neither.
C24_ExactlyOneMode ==
    object.constructed =>
        \/ object.pool /\ object.transactionalConnection = 0
        \/ ~object.pool /\ object.transactionalConnection # 0

\* C24: the mode of a Connection is fixed at construction: it never owns a
\* pool and wraps a connection at once, _isTransactionConnection is true
\* exactly when it wraps the connection it was made of, and is what it was
\* when each call in progress was made; a pool-backed Connection owns its
\* pool until an end() has shut it down, and has neither from then on.
C24_ModeIsFixedAtConstruction ==
    object.constructed =>
        /\ ~(object.pool /\ object.transactionalConnection # 0)
        /\ object.isTransactionConnection <=> object.transactionalConnection = Wrapped
        /\ object.transactionalConnection \in {0, Wrapped}
        /\ \A c \in Callers :
              objectCalls[c].at # "idle" =>
                  /\ objectCalls[c].before.isTransactionConnection =
                        object.isTransactionConnection
                  /\ objectCalls[c].before.transactionalConnection =
                        object.transactionalConnection
                  /\ object.pool => objectCalls[c].before.pool
        /\ (~object.pool /\ ~object.isTransactionConnection) => driver.poolEndCalls > 0

\* a query on a pool-backed Connection that had been ended found neither a
\* pool nor a connection
C24_QueriedAfterEnd ==
    \E c \in Callers :
        /\ objectCalls[c].op = "query" /\ objectCalls[c].at = "done"
        /\ objectCalls[c].result = "error"
        /\ ~objectCalls[c].before.pool
        /\ ~objectCalls[c].before.isTransactionConnection

\* C25: end() is an idempotent pool shutdown: over any sequence of end()
\* calls on one Connection, calls that overlap while an earlier one is
\* awaiting the pool included, pool.end() is called at most once, and end()
\* on a Connection with no pool returns without error and changes nothing.
C25_EndShutsThePoolDownOnce ==
    /\ driver.poolEndCalls <= 1
    /\ \A c \in Callers :
          (/\ objectCalls[c].op = "end" /\ objectCalls[c].at = "done"
           /\ ~objectCalls[c].before.pool) =>
              /\ objectCalls[c].result = "undefined"
              /\ object = objectCalls[c].before

\* two end() calls on a pool-backed Connection are both awaiting pool.end()
C25_TwoEndCallsOverlap ==
    \E c, d \in Callers :
        /\ c # d
        /\ objectCalls[c].op = "end" /\ objectCalls[c].at = "poolEnd"
        /\ objectCalls[d].op = "end" /\ objectCalls[d].at = "poolEnd"

\* C26: beginTransaction() on a transaction-bound Connection throws before
\* any checkout or BEGIN and leaves the Connection as it was; on a
\* pool-backed Connection it checks one connection out, issues BEGIN on it
\* and returns that connection without releasing it.
C26_BeginTransactionByMode ==
    /\ \A c \in Callers :
          objectCalls[c].op = "beginTransaction" =>
              IF objectCalls[c].before.isTransactionConnection
              THEN /\ objectCalls[c].at = "done" /\ objectCalls[c].result = "error"
                   /\ objectCalls[c].connection = 0
                   /\ object = objectCalls[c].before
                   /\ driver.getConnectionCalls = 0 /\ driver.begunOn = {}
              ELSE /\ objectCalls[c].at = "begin" =>
                         /\ objectCalls[c].connection \in Conns \ driver.free
                         /\ objectCalls[c].connection \notin driver.held
                         /\ \A d \in Callers \ {c} :
                               objectCalls[d].at \in {"begin", "execute"} =>
                                   objectCalls[d].connection # objectCalls[c].connection
                   /\ objectCalls[c].result = "handle" =>
                         /\ objectCalls[c].connection \in Conns
                         /\ objectCalls[c].connection \in driver.begunOn
    /\ ~object.isTransactionConnection =>
          \A k \in driver.held : k \in driver.begunOn /\ k \notin driver.free

\* beginTransaction() has thrown on a transaction-bound Connection on which
\* a query had executed
C26_RefusedOnTransactionBound ==
    /\ driver.executedOn = {Wrapped}
    /\ \E c \in Callers :
          /\ objectCalls[c].op = "beginTransaction" /\ objectCalls[c].at = "done"
          /\ objectCalls[c].before.isTransactionConnection

\* the query calls that hold a connection
InFlight == {c \in Callers : calls[c].op = "query" /\ calls[c].at = "execute"}

\* C27: on a pool-backed Connection, query calls that run at once each
\* check out a connection of their own and release that same connection:
\* no connection is used by two queries in flight, none is released twice,
\* and when every query has finished, by success or by failure, no
\* checkout is outstanding.
C27_QueriesCheckOutAndRelease ==
    /\ \A c \in InFlight :
          /\ calls[c].connection \in Conns \ free
          /\ calls[c].connection = calls[c].checkedOut
          /\ calls[c].released = 0
          /\ \A d \in InFlight \ {c} : calls[d].connection # calls[c].connection
    /\ \A c \in Callers :
          (calls[c].op = "query" /\ calls[c].at = "done") =>
              /\ calls[c].released = (IF calls[c].checkedOut = 0 THEN 0 ELSE 1)
              /\ calls[c].checkedOut # 0 => calls[c].connection = calls[c].checkedOut
              /\ calls[c].result = "rows" => calls[c].checkedOut # 0
    /\ Cardinality(free) + Cardinality(InFlight) = PoolSize
    /\ InFlight = {} => free = Conns

\* two queries ran at once, one succeeded and the other failed, and both
\* have finished
C27_TwoQueriesFinished ==
    \E c, d \in Callers :
        /\ calls[c].op = "query" /\ calls[c].at = "done" /\ calls[c].result = "rows"
        /\ calls[d].op = "query" /\ calls[d].at = "done" /\ calls[d].result = "error"
        /\ calls[c].checkedOut # 0 /\ calls[d].checkedOut # 0
        /\ calls[c].checkedOut # calls[d].checkedOut

\* C30: once BEGIN has succeeded in FastOrm.transaction(callback), the run
\* ends either with commit succeeded and no rollback issued, or with
\* rollback issued and the error it caught re-raised to the caller; either
\* way the connection it checked out is released exactly once, after the
\* commit or rollback attempt, and the callback works on a Connection that
\* wraps that very connection.
C30_CommitOrRollbackAndRethrow ==
    \A c \in Callers :
        (calls[c].op = "transaction" /\ calls[c].connection # 0) =>
            /\ calls[c].connection = calls[c].checkedOut
            /\ calls[c].at \in {"callback", "commit", "rollback"} =>
                  calls[c].released = 0 /\ calls[c].connection \notin free
            /\ calls[c].at = "done" =>
                  /\ \/ calls[c].result = "value" /\ ~calls[c].rollback
                     \/ calls[c].result = "error" /\ calls[c].rollback
                  /\ calls[c].released = 1

\* the callback threw, rollback was issued and rejected, and the caller has
\* the rollback's rejection in place of the callback's error
C30_RollbackRejected ==
    \E c \in Callers :
        /\ calls[c].op = "transaction" /\ calls[c].at = "done"
        /\ calls[c].rollback /\ calls[c].result = "rollbackError"
        /\ calls[c].released = 1 /\ calls[c].executed > 0

\* the last call was a join in callback form whose callback added nothing
LastCallIsEmptyCallbackJoin ==
    /\ lastCall.method \in {JoinMethod(type) : type \in JoinTypes}
    /\ ~lastCall.threw
    /\ lastCall.args[2] = Function("addsNothing")

\* C35: a join in callback form whose callback adds no predicate appends one
\* join spec all the same, of the type and table of the call, with an empty
\* ON fragment and no parameters; the statement compiled next has
\* `<TYPE> JOIN <table> ON ` with no condition after it.
C35_EmptyCallbackJoinIsKept ==
    LastCallIsEmptyCallbackJoin =>
        LET n == Len(builder.joinClauses)
            compiled == buildSql(builder)
            before == buildSql(lastCall.before)
            joinsEnd == 4 + Len(Flatten([i \in 1..(n - 1) |->
                               <<"", "", "", "", "">> \o builder.joinClauses[i].on]))
        IN  /\ n = Len(lastCall.before.joinClauses) + 1
            /\ SubSeq(builder.joinClauses, 1, n - 1) = lastCall.before.joinClauses
            /\ JoinMethod(builder.joinClauses[n].type) = lastCall.method
            /\ builder.joinClauses[n].table = lastCall.args[1]
            /\ builder.joinClauses[n].on = <<>>
            /\ builder.joinClauses[n].params = <<>>
            /\ compiled.params = before.params
            /\ compiled.sql =
                  SubSeq(before.sql, 1, joinsEnd) \o
                  <<" ", builder.joinClauses[n].type, " JOIN ", lastCall.args[1], " ON ">> \o
                  SubSeq(before.sql, joinsEnd + 1, Len(before.sql))

\* leftJoin("posts", callback) with a callback that adds nothing has come
\* after a join with a condition and before a LIMIT
C35_EmptyJoinBetweenJoinAndLimit ==
    /\ LastCallIsEmptyCallbackJoin /\ lastCall.method = "leftJoin"
    /\ lastCall.before.joinClauses # <<>>
    /\ lastCall.before.joinClauses[1].on # <<>>
    /\ IsSet(builder.limitValue)
    /\ buildSql(builder).sql[Len(buildSql(builder).sql) - 2] = " ON "

Aggregates == {"count", "sum", "avg"}

\* the select item an aggregate of a column is compiled to
AggregateExpression(called, column) ==
    CASE called = "count" -> "COUNT(" \o column \o ") as count"
      [] called = "sum" -> "SUM(" \o column \o ") as sum"
      [] called = "avg" -> "AVG(" \o column \o ") as avg"

\* C33: terminal operations change the plan for good.  first() leaves the
\* limit at 1 and count, sum and avg leave the select list at their
\* aggregate expression; no call but limit and first changes the limit and
\* no call but select and the aggregates changes the select list, so a get()
\* that follows compiles the plan with that limit and that select list.
C33_TerminalOperationsChangeThePlan ==
    [][/\ lastCall'.method = "first" =>
             /\ builder'.limitValue = Num(1)
             /\ lastCall'.args[1] = buildSql(builder')
       /\ lastCall'.method \in Aggregates =>
             /\ builder'.selectColumns =
                   <<AggregateExpression(lastCall'.method, lastCall'.args[1])>>
             /\ lastCall'.args[2] = buildSql(builder')
       /\ lastCall'.method \notin {"limit", "first"} =>
             builder'.limitValue = builder.limitValue
       /\ lastCall'.method \notin Aggregates \cup {"select"} =>
             builder'.selectColumns = builder.selectColumns
       /\ lastCall'.method = "get" =>
             /\ builder' = builder
             /\ lastCall'.args[1] = buildSql(builder)]_vars

\* count() and first() were followed by get() on the same builder, which
\* has compiled the select list COUNT(*) and LIMIT 1
C33_GetAfterCountAndFirst ==
    /\ lastCall.method = "get"
    /\ lastCall.args[1].sql =
          <<"SELECT ", "COUNT(*) as count", " FROM ", "users", " LIMIT ", "?">>
    /\ lastCall.args[1].params = <<Num(1)>>

\* the call in progress has had a before hook fail
BeforeHookFailed ==
    \E i \in 1..Len(modelLog) :
        /\ modelLog[i].op = "hookFailed"
        /\ modelLog[i].event \in {"beforeCreate", "beforeUpdate", "beforeDelete"}

\* C34: when a beforeCreate, beforeUpdate or beforeDelete hook fails, the
\* call settles with that failure, the failed hook is the last thing it did
\* (no INSERT, UPDATE or DELETE is handed to connection.query and no hook
\* after it runs), and the table is not changed by the call.
C34_FailedBeforeHookWritesNothing ==
    /\ [](BeforeHookFailed =>
             /\ modelLog[Len(modelLog)].op = "hookFailed"
             /\ \A i \in 1..(Len(modelLog) - 1) :
                   /\ modelLog[i].op # "hookFailed"
                   /\ modelLog[i].event \notin {"afterCreate", "afterUpdate", "afterDelete"}
                   /\ modelLog[i].op = "statement" =>
                         i = 1 /\ modelCall.method # "create"
             /\ modelCall.at = "done" /\ modelCall.result = Failure
             /\ modelCall.stage # "write")
    /\ [][(BeforeHookFailed \/ BeforeHookFailed') =>
             users' = users /\ autoIncrement' = autoIncrement]_vars

\* create was called on a table that has a row; its first beforeCreate hook
\* ran, its second failed, and create has failed with nothing inserted
C34_SecondBeforeCreateHookFailed ==
    /\ modelCall.method = "create" /\ modelCall.at = "done"
    /\ modelCall.result = Failure
    /\ users # <<>>
    /\ Len(modelLog) = 2
    /\ modelLog[1].op = "hook" /\ modelLog[2].op = "hookFailed"
    /\ modelLog[2].event = "beforeCreate"

(***************************************************************************)
(* Claims about the migration runner.                                      *)
(***************************************************************************)
RECURSIVE Events(_, _)
\* the entries of a run log whose op is one of ops, in order
Events(log, ops) ==
    IF log = <<>> THEN <<>>
    ELSE (IF Head(log).op \in ops THEN <<Head(log)>> ELSE <<>>) \o Events(Tail(log), ops)

NamesOf(events) == [i \in 1..Len(events) |-> events[i].name]
Range(seq) == {seq[i] : i \in 1..Len(seq)}

\* what the run has done to migrations and to their ledger rows
Body == Events(runLog, {"up", "upFailed", "insert", "down", "downFailed", "delete", "skip"})

\* the names in the ledger when the run started
NamesAtStart == {n \in Names : ledgerAtStart[n] > 0}

\* the names that have a definition: a file of the directory that loads
Defined == {f.name : f \in migrationsDir \ broken}

\* body is op1(x), op2(x) for each x of names in turn
Alternates(body, names, op1, op2) ==
    /\ Len(body) = 2 * Len(names)
    /\ \A k \in 1..Len(names) :
          /\ body[2 * k - 1].op = op1 /\ body[2 * k - 1].name = names[k]
          /\ body[2 * k].op = op2 /\ body[2 * k].name = names[k]

Min(a, b) == IF a < b THEN a ELSE b

\* C4: between runs, whatever has failed in them, the ledger holds at most one
\* row per name, and a name is in the ledger if and only if that migration's
\* up has completed and its down has not completed since.
C4_LedgerIsTheAppliedSet ==
    pc = "idle" =>
        /\ \A n \in Names : ledger[n] <= 1
        /\ \A n \in Names : (ledger[n] > 0) <=> (n \in applied)

\* C5 as claimed: a migrateUp run without failure executes up for exactly the
\* available migrations whose name is not in the ledger, in ascending name
\* order, each ledger row inserted right after its up; on an empty ledger
\* with available [A, B, C] it runs A, B, C and ends with the ledger {A, B, C}.
C5_UpInNameOrder ==
    (pc = "done" /\ method = "up" /\ outcome = "ok") =>
        LET ups == Events(runLog, {"up"})
        IN  /\ Range(NamesOf(ups)) = Defined \ NamesAtStart
            /\ \A i, j \in 1..Len(ups) : i < j => NameLess(ups[i].name, ups[j].name)
            /\ Alternates(Body, NamesOf(ups), "up", "insert")
            /\ ledger = [n \in Names |->
                            ledgerAtStart[n] + (IF n \in Range(NamesOf(ups)) THEN 1 ELSE 0)]

\* C5 as amended: the order is that of the file names (name and extension).
C5_UpInFileOrder ==
    (pc = "done" /\ method = "up" /\ outcome = "ok") =>
        LET ups == Events(runLog, {"up"})
        IN  /\ Range(NamesOf(ups)) = Defined \ NamesAtStart
            /\ \A i, j \in 1..Len(ups) : i < j => FileLess(ups[i].file, ups[j].file)
            /\ Alternates(Body, NamesOf(ups), "up", "insert")
            /\ ledger = [n \in Names |->
                            ledgerAtStart[n] + (IF n \in Range(NamesOf(ups)) THEN 1 ELSE 0)]
            /\ (NamesAtStart = {} /\ Defined = {"A", "B", "C"}) =>
                  /\ NamesOf(ups) = <<"A", "B", "C">>
                  /\ {n \in Names : ledger[n] > 0} = {"A", "B", "C"}

\* migrateUp has run A, B, C on an empty ledger
C5_AppliedABC ==
    /\ pc = "done" /\ method = "up" /\ outcome = "ok"
    /\ NamesAtStart = {}
    /\ NamesOf(Events(runLog, {"up"})) = <<"A", "B", "C">>

\* C6: with steps >= 1 and every definition present, a migrateDown(steps) run
\* without failure rolls back the min(steps, |applied|) applied migrations
\* with the greatest names, in strictly descending name order, each ledger
\* row deleted right after its down; with applied {A, B, C}, migrateDown(2)
\* runs down of C then B and leaves the ledger {A}.
C6_DownRollsBackLastSteps ==
    (/\ pc = "done" /\ method = "down" /\ outcome = "ok"
     /\ steps >= 1 /\ NamesAtStart \subseteq Defined) =>
        LET downs == NamesOf(Events(runLog, {"down"}))
        IN  /\ Len(downs) = Min(steps, Cardinality(NamesAtStart))
            /\ Range(downs) \subseteq NamesAtStart
            /\ \A d \in Range(downs) : \A n \in NamesAtStart \ Range(downs) : NameLess(n, d)
            /\ \A i, j \in 1..Len(downs) : i < j => NameLess(downs[j], downs[i])
            /\ Alternates(Body, downs, "down", "delete")
            /\ ledger = [n \in Names |-> IF n \in Range(downs) THEN 0 ELSE ledgerAtStart[n]]
            /\ (NamesAtStart = {"A", "B", "C"} /\ steps = 2) =>
                  /\ downs = <<"C", "B">>
                  /\ {n \in Names : ledger[n] > 0} = {"A"}

\* migrateDown(2) has run on the ledger {A, B, C}, every definition present
C6_RolledBackTwoOfABC ==
    /\ pc = "done" /\ method = "down" /\ outcome = "ok" /\ steps = 2
    /\ NamesAtStart = {"A", "B", "C"} /\ NamesAtStart \subseteq Defined
    /\ Len(Events(runLog, {"down"})) = 2

\* C7: when an up or a down fails, nothing of the batch is attempted after
\* it, the run is rejected with that failure, no ledger statement is issued
\* for the failing migration, and the ledger is the one the run started
\* with, plus the migrations whose up completed before the failure (minus
\* those whose down completed before it).
C7_FailureAbortsBatch ==
    \A i \in 1..Len(runLog) :
        runLog[i].op \in {"upFailed", "downFailed"} =>
            LET ups == Range(NamesOf(Events(runLog, {"up"})))
                downs == Range(NamesOf(Events(runLog, {"down"})))
            IN  /\ i = Len(runLog)
                /\ pc = "done"
                /\ outcome = (IF runLog[i].op = "upFailed" THEN "up" ELSE "down")
                /\ ledger = [n \in Names |->
                                IF n \in downs THEN 0
                                ELSE ledgerAtStart[n] + (IF n \in ups THEN 1 ELSE 0)]

\* an up has failed after another migration of the batch was applied, with
\* one more still pending
C7_UpFailedMidBatch ==
    /\ pc = "done" /\ outcome = "up"
    /\ Len(Events(runLog, {"up"})) >= 1
    /\ \E n \in Defined \ NamesAtStart : \A e \in Range(Body) : e.name # n

\* the last entry of the log after a step that has added one
Added == runLog'[Len(runLog')]
Adds(ops) == Len(runLog') = Len(runLog) + 1 /\ Added.op \in ops

\* C8 as claimed: no up is executed while a migration with a greater name is
\* already in the ledger, and no down while one is still in the ledger.
C8_NeverPastAGreaterName ==
    [][Adds({"up", "upFailed", "down", "downFailed"}) =>
          \A n \in Names : ledger[n] > 0 => ~NameLess(Added.name, n)]_vars

\* C8 as amended: within one run the ups are executed in ascending file-name
\* order, and a down is executed while a greater name is in the ledger only
\* when that entry has been skipped in the same run for lack of a definition.
C8_OrderedWithinARun ==
    [][/\ Adds({"up", "upFailed"}) =>
             \A e \in Range(Events(runLog, {"up"})) : FileLess(e.file, Added.file)
       /\ Adds({"down", "downFailed"}) =>
             \A n \in Names :
                 (ledger[n] > 0 /\ NameLess(Added.name, n)) =>
                     \E e \in Range(Events(runLog, {"skip"})) : e.name = n]_vars

\* an up is executed while a greater name has been in the ledger since before
\* the run
C8_UpBelowAnAppliedName ==
    \E e \in Range(Events(runLog, {"up"})) :
        \E n \in NamesAtStart : NameLess(e.name, n)

\* C9: in migrateDown an entry selected for rollback that has no definition
\* is skipped: no down is executed for it, its ledger row stays, the run goes
\* on with the next selected entry, and the skipped entry counts as one of
\* the steps entries.
C9_MissingDefinitionIsSkipped ==
    LET handled == Events(runLog, {"skip", "down"})
        skipped == Range(NamesOf(Events(runLog, {"skip"})))
    IN  /\ \A n \in skipped :
              /\ n \notin Defined
              /\ ledger[n] = ledgerAtStart[n] /\ ledger[n] > 0
              /\ \A e \in Range(Body) : e.name = n => e.op = "skip"
        /\ \A i \in 1..Len(handled) :
              handled[i].name \notin Defined => handled[i].op = "skip"
        /\ (pc = "done" /\ method = "down" /\ outcome = "ok" /\ steps >= 1) =>
              /\ Len(handled) = Min(steps, Cardinality(NamesAtStart))
              /\ \A i, j \in 1..Len(handled) :
                    i < j => NameLess(handled[j].name, handled[i].name)
              /\ \A e \in Range(handled) :
                    \A n \in NamesAtStart \ Range(NamesOf(handled)) : NameLess(n, e.name)

\* migrateDown(2) has skipped an entry and then rolled back the next one
C9_SkippedThenRolledBack ==
    /\ pc = "done" /\ method = "down" /\ outcome = "ok" /\ steps = 2
    /\ LET handled == Events(runLog, {"skip", "down"})
       IN  Len(handled) = 2 /\ handled[1].op = "skip" /\ handled[2].op = "down"

\* C28: migrateUp is ledger-gated and idempotent.  A migrateUp run that starts
\* right after a migrateUp run that completed without failure executes no up
\* and leaves the ledger as it was.  A migrateUp run that starts after a
\* failed one executes up only for available migrations that were not in the
\* ledger when it started, and, when it completes, for all of them.
C28_MigrateUpIsLedgerGated ==
    method = "up" =>
        LET attempted == Range(NamesOf(Events(runLog, {"up", "upFailed"})))
            completed == Range(NamesOf(Events(runLog, {"up"})))
        IN  /\ lastRun = "upOk" =>
                  /\ attempted = {}
                  /\ ledger = ledgerAtStart
            /\ lastRun = "upFailed" =>
                  /\ attempted \subseteq Defined \ NamesAtStart
                  /\ (pc = "done" /\ outcome = "ok") =>
                        completed = Defined \ NamesAtStart

\* a migrateUp run has completed right after one that applied migrations
\* and completed
C28_SecondRunFoundNothingPending ==
    /\ pc = "done" /\ method = "up" /\ outcome = "ok" /\ lastRun = "upOk"
    /\ Cardinality(Defined) >= 2
    /\ Events(runLog, {"read"}) # <<>>

\* C29: in every migrateUp and migrateDown run the CREATE TABLE statement of
\* the ledger is the first statement, issued once and completed before the
\* ledger is read and before any row is inserted or deleted; when it fails
\* the run has read and written nothing and has executed no up and no down.
C29_LedgerTableFirst ==
    /\ \A i \in 1..Len(runLog) : (runLog[i].op = "create") <=> (i = 1)
    /\ runLog # <<>> => ledgerExists
    /\ (method # "none" /\ pc # "ensure" /\ outcome # "ensure") => runLog # <<>>
    /\ (pc = "done" /\ outcome = "ensure") =>
          /\ runLog = <<>>
          /\ ledger = ledgerAtStart

\* a migrateDown run has created the table, read the ledger, executed a down
\* and deleted its row
C29_CreatedReadAndDeleted ==
    /\ pc = "done" /\ method = "down" /\ outcome = "ok"
    /\ Len(runLog) >= 4
    /\ runLog[1].op = "create" /\ runLog[2].op = "read"
    /\ \E i \in 3..Len(runLog) : runLog[i].op = "delete"

\* C32 as claimed: for every integer steps, migrateDown(steps) executes down
\* for at most max(steps, 0) migrations and deletes at most that many ledger
\* rows; with steps <= 0 it executes no down and leaves the ledger as it was.
C32_AtMostStepsRolledBack ==
    method = "down" =>
        LET most == IF steps > 0 THEN steps ELSE 0
        IN  /\ Len(Events(runLog, {"down", "downFailed"})) <= most
            /\ Len(Events(runLog, {"delete"})) <= most
            /\ steps <= 0 =>
                  /\ Events(runLog, {"down", "downFailed"}) = <<>>
                  /\ ledger = ledgerAtStart

\* migrateDown(-1) has executed a down and deleted its ledger row
C32_NegativeStepsRolledBack ==
    /\ pc = "done" /\ method = "down" /\ steps < 0
    /\ Events(runLog, {"down"}) # <<>>
    /\ Events(runLog, {"delete"}) # <<>>
    /\ ledger # ledgerAtStart

\* the files of the loaded migrations
FilesOf(available) == {available[i].file : i \in 1..Len(available)}

\* C36: a definition file that fails to load is left out of the available
\* migrations and the run goes on: migrateUp applies every other pending
\* migration, those with greater names too, and inserts their ledger rows;
\* migrateDown finds no definition for a ledger entry whose file does not
\* load and skips it, leaving its row.
C36_UnloadableFileIsLeftOut ==
    /\ FilesOf(availableMigrations) \subseteq migrationsDir \ broken
    /\ pc \in {"loop", "insert", "delete"} =>
          FilesOf(availableMigrations) = migrationsDir \ broken
    /\ (pc = "done" /\ method = "up" /\ outcome = "ok") =>
          LET completed == Range(NamesOf(Events(runLog, {"up"})))
          IN  /\ completed = Defined \ NamesAtStart
              /\ \A n \in completed : ledger[n] = 1
    /\ \A e \in Range(Body) :
          e.name \notin Defined =>
              /\ e.op = "skip"
              /\ ledger[e.name] = ledgerAtStart[e.name]

\* migrateUp has completed with a file in the directory that does not load,
\* having applied and recorded a migration with a greater name
C36_AppliedPastAnUnloadableFile ==
    /\ pc = "done" /\ method = "up" /\ outcome = "ok"
    /\ \E f \in broken :
          /\ f \in migrationsDir
          /\ ledger[f.name] = 0
          /\ \E e \in Range(Events(runLog, {"insert"})) :
                NameLess(f.name, e.name) /\ ledger[e.name] = 1

\* C31 as claimed: when two migrateUp runs on the same ledger and the same
\* directory interleave at their awaits, the up of every pending migration
\* is executed at most once in total, and each name is inserted into the
\* ledger at most once.
C31_UpAtMostOnceInTotal ==
    /\ \A f \in Files : upCount[f] <= 1
    /\ \A n \in Names : ledger[n] <= 1

\* both runs read the ledger before either had inserted: each has executed
\* the up of the same definition, one has inserted the row and completed,
\* the other's INSERT was rejected
C31_BothRunsExecutedTheSameUp ==
    \E f \in Files :
        /\ upCount[f] = 2 /\ ledger[f.name] = 1
        /\ \E r, q \in Runners :
              /\ runners[r].pc = "done" /\ runners[r].outcome = "ok"
              /\ runners[q].pc = "done" /\ runners[q].outcome = "insert"
              /\ runners[r].ranMigrations = <<>> /\ runners[q].ranMigrations = <<>>

====
